---- MODULE Spec2Model ----
(***************************************************************************)
(* HWP 5.0 parsing core of markdown-media (core/src/hwp): the record       *)
(* decoder, PARA_TEXT decoding and style-run formatting, table             *)
(* reconstruction and the whole-document calls of HwpParser.               *)
(*                                                                         *)
(* Bytes are integers 0..255, byte buffers are sequences of bytes, a       *)
(* cursor is a 0-based offset (the byte at offset o is buffer[o + 1]).     *)
(* Strings are sequences of code points.                                   *)
(***************************************************************************)
EXTENDS Integers, Sequences, FiniteSets, TLC

VARIABLES
    \* ---- RecordParser (record.rs) ----
    data,             \* RecordParser.data
    position,         \* RecordParser.position
    out,              \* the records returned so far by parse_next called by hand
    last,             \* what the last call of parse_next returned: "start", "some", "none"
    returned,         \* what parse_all returned (NotCalled before the call)
    all_from,         \* the cursor at the time parse_all was called
    enc,              \* how the buffer was built: the record it encodes, or NoRecord
    \* ---- text decoding and formatting (record.rs), called as functions ----
    tin,              \* the arguments the functions are called with
    plain,            \* what extract_para_text returned
    positioned,       \* what extract_para_text_with_positions returned
    formatted,        \* what extract_para_text_formatted returned
    style_at,         \* what find_style_for_position returned, and for which position
    marked,           \* what apply_markdown_formatting returned
    \* ---- the record loop of HwpParser::extract_tables (parser.rs) ----
    scan,             \* the locals of the loop, with the tables pushed so far
    scan_pc,          \* "loop", "done" (the loop and the last-table step ended), "panicked"
    n_scanned,        \* the number of records the loop has taken
    scan_seen,        \* history: the records the loop has taken, in order
    \* ---- HwpParser over an opened container (parser.rs, ole.rs) ----
    compound_file,    \* OleReader.compound_file: the streams of the container
    flags,            \* OleReader.flags
    self_char_shapes, \* HwpParser.char_shapes
    \* what the last whole-document call returned, under the function called
    \* (the others are NotCalled)
    text_ret,         \* extract_text
    images_ret,       \* extract_images
    tables_ret,       \* extract_tables
    metadata_ret,     \* extract_metadata
    mdm_ret,          \* to_mdm
    \* ---- the record loop of HwpParser::parse_section_records_formatted (parser.rs) ----
    para,             \* the locals of the loop
    para_pc,          \* "loop", "done" (the loop and the last flush ended)
    para_rec,         \* the record the loop took last (NoRecord before the first)
    para_seen,        \* history: the records the loop has taken, in order
    n_para,           \* the number of records the loop has taken
    para_ret,         \* what parse_section_records_formatted returned
    \* ---- byte-level functions of parser.rs, ole.rs and record.rs, called as functions ----
    fin,              \* the argument the functions are called with
    format_ret,       \* what detect_image_format returned
    flags_ret,        \* OleReader.flags after OleReader::open
    zlib_ret,         \* what decompress_zlib returned
    bin_ret,          \* what OleReader::read_bin_data returned
    shape_ret,        \* what parse_char_shape returned
    shapes_ret,       \* HwpParser.char_shapes after parse_doc_info
    \* ---- the loop of extract_para_text / extract_para_text_with_positions (record.rs) ----
    dloop,            \* the payload, the locals of the loop and the offsets read
    \* ---- Cache (cache.rs) ----
    store,            \* Cache.store, as the set of its (key, value) entries
    max_size,         \* Cache.max_size
    \* ---- the build ----
    overflow_checks   \* whether the build panics on integer overflow (debug) or wraps

recVars == <<data, position, out, last, returned, all_from, enc>>
textVars == <<tin, plain, positioned, formatted, style_at, marked>>
scanVars == <<scan, scan_pc, n_scanned, scan_seen>>
retVars == <<text_ret, images_ret, tables_ret, metadata_ret, mdm_ret>>
docVars == <<compound_file, flags, self_char_shapes, retVars>>
paraVars == <<para, para_pc, para_rec, para_seen, n_para, para_ret>>
fnVars == <<fin, format_ret, flags_ret, zlib_ret, bin_ret, shape_ret, shapes_ret>>
cacheVars == <<store, max_size>>

vars == <<recVars, textVars, scanVars, docVars, paraVars, fnVars, dloop, cacheVars,
          overflow_checks>>

NoRecord == [none |-> TRUE]
NotCalled == [called |-> FALSE]

\* The locals of extract_tables before the first record of a section.
NoTable == [some |-> FALSE]
NoInfo == [some |-> FALSE]
ScanStart ==
    [tables |-> <<>>, current_table |-> NoTable, current_cells |-> <<>>,
     current_cell_spans |-> <<>>, in_table |-> FALSE, table_info |-> NoInfo,
     cell_index |-> 0, fault |-> "none",
     \* history: the cell buffer handed to organize_cells for each pushed table
     flats |-> <<>>,
     \* history: the payload of each TABLE record of at least 8 bytes met so far
     decoded |-> <<>>]

\* Each part of the parser is exercised on its own: the variables of the other
\* parts stay at these values.
RecIdle ==
    /\ data = <<>>
    /\ position = 0
    /\ out = <<>>
    /\ last = "start"
    /\ returned = NotCalled
    /\ all_from = 0
    /\ enc = NoRecord

TextIdle ==
    /\ tin = [kind |-> "none"]
    /\ plain = NotCalled
    /\ positioned = NotCalled
    /\ formatted = NotCalled
    /\ style_at = NotCalled
    /\ marked = NotCalled

ScanIdle ==
    /\ scan = ScanStart
    /\ scan_pc = "idle"
    /\ n_scanned = 0
    /\ scan_seen = <<>>

\* impl Default for HwpFlags
DefaultFlags ==
    [compressed |-> TRUE,
     encrypted |-> FALSE,
     distributed |-> FALSE,
     script_saved |-> FALSE,
     drm_protected |-> FALSE,
     xml_template |-> FALSE,
     history |-> FALSE,
     signature |-> FALSE,
     certificate_encrypted |-> FALSE,
     certificate_drm |-> FALSE,
     ccl |-> FALSE,
     mobile_optimized |-> FALSE,
     private_info_security |-> FALSE,
     track_changes |-> FALSE,
     kogl |-> FALSE,
     video_control |-> FALSE,
     order_field_control |-> FALSE]

NoFile == [opened |-> FALSE]

DocIdle ==
    /\ compound_file = NoFile
    /\ flags = DefaultFlags
    /\ self_char_shapes = <<>>
    /\ text_ret = NotCalled
    /\ images_ret = NotCalled
    /\ tables_ret = NotCalled
    /\ metadata_ret = NotCalled
    /\ mdm_ret = NotCalled

\* The locals of parse_section_records_formatted before the first record.
ParaStart ==
    [paragraphs |-> <<>>, current_text_data |-> [some |-> FALSE],
     current_char_shape_mapping |-> [some |-> FALSE]]

ParaIdle ==
    /\ para = ParaStart
    /\ para_pc = "idle"
    /\ para_rec = NoRecord
    /\ para_seen = <<>>
    /\ n_para = 0
    /\ para_ret = NotCalled

FnIdle ==
    /\ fin = [kind |-> "none"]
    /\ format_ret = NotCalled
    /\ flags_ret = NotCalled
    /\ zlib_ret = NotCalled
    /\ bin_ret = NotCalled
    /\ shape_ret = NotCalled
    /\ shapes_ret = NotCalled

\* The loop of the decoders before it is entered, and a cache of size 0.
DecIdle == dloop = [pc |-> "idle"]
CacheIdle == store = {} /\ max_size = 0

decOthers == <<recVars, textVars, scanVars, docVars, paraVars, fnVars, cacheVars,
               overflow_checks>>
cacheOthers == <<recVars, textVars, scanVars, docVars, paraVars, fnVars, dloop,
                 overflow_checks>>
recOthers == <<textVars, scanVars, docVars, paraVars, fnVars, dloop, cacheVars,
               overflow_checks>>
textOthers == <<recVars, scanVars, docVars, paraVars, fnVars, dloop, cacheVars,
               overflow_checks>>
scanOthers == <<recVars, textVars, docVars, paraVars, fnVars, dloop, cacheVars>>
docOthers == <<recVars, textVars, scanVars, paraVars, fnVars, dloop, cacheVars>>
paraOthers == <<recVars, textVars, scanVars, docVars, fnVars, dloop, cacheVars,
               overflow_checks>>
fnOthers == <<recVars, textVars, scanVars, docVars, paraVars, dloop, cacheVars,
               overflow_checks>>
RecOthersIdle ==
    TextIdle /\ ScanIdle /\ DocIdle /\ ParaIdle /\ FnIdle
    /\ DecIdle /\ CacheIdle /\ overflow_checks = FALSE
TextOthersIdle ==
    RecIdle /\ ScanIdle /\ DocIdle /\ ParaIdle /\ FnIdle
    /\ DecIdle /\ CacheIdle /\ overflow_checks = FALSE
ScanOthersIdle ==
    RecIdle /\ TextIdle /\ DocIdle /\ ParaIdle /\ FnIdle
    /\ DecIdle /\ CacheIdle
DocOthersIdle ==
    RecIdle /\ TextIdle /\ ScanIdle /\ ParaIdle /\ FnIdle
    /\ DecIdle /\ CacheIdle
ParaOthersIdle ==
    RecIdle /\ TextIdle /\ ScanIdle /\ DocIdle /\ FnIdle
    /\ DecIdle /\ CacheIdle /\ overflow_checks = FALSE
FnOthersIdle ==
    RecIdle /\ TextIdle /\ ScanIdle /\ DocIdle /\ ParaIdle
    /\ DecIdle /\ CacheIdle /\ overflow_checks = FALSE

DecOthersIdle ==
    RecIdle /\ TextIdle /\ ScanIdle /\ DocIdle /\ ParaIdle /\ FnIdle
    /\ CacheIdle /\ overflow_checks = FALSE
CacheOthersIdle ==
    RecIdle /\ TextIdle /\ ScanIdle /\ DocIdle /\ ParaIdle /\ FnIdle
    /\ DecIdle /\ overflow_checks = FALSE

(***************************************************************************)
(* Generic helpers                                                         *)
(***************************************************************************)

Min(a, b) == IF a < b THEN a ELSE b

RECURSIVE SeqsUpTo(_, _)
\* All sequences over S of length at most n.
SeqsUpTo(S, n) ==
    IF n = 0 THEN {<<>>}
    ELSE LET shorter == SeqsUpTo(S, n - 1)
         IN  shorter \cup {Append(s, x) : s \in {t \in shorter : Len(t) = n - 1}, x \in S}

RECURSIVE Concat(_)
\* The concatenation of a sequence of sequences.
Concat(ss) == IF ss = <<>> THEN <<>> ELSE Head(ss) \o Concat(Tail(ss))

Prefixes(s) == {SubSeq(s, 1, k) : k \in 0..Len(s)}

(***************************************************************************)
(* Record header fields, computed on the four little-endian bytes          *)
(* b0..b3 of the header word (b0 is the least significant byte).           *)
(***************************************************************************)
SIZE_SENTINEL == 4095    \* 0xFFF

\* (header & 0x3FF) as u16
TagIdOf(b0, b1) == b0 + (b1 % 4) * 256

\* ((header >> 10) & 0x3FF) as u16
LevelOfMutant(b1, b2) == (b1 \div 4) + (b2 % 8) * 64
LevelOf(b1, b2) == (b1 \div 4) + (b2 % 16) * 64

\* (header >> 20) & 0xFFF
SizeFieldOf(b2, b3) == (b2 \div 16) + b3 * 16

\* u32::from_le_bytes, for a value below 2^31 (b3 < 128)
U32Le(b0, b1, b2, b3) == b0 + b1 * 256 + b2 * 65536 + b3 * 16777216

\* Whether the little-endian u32 exceeds n, for 0 <= n < 2^31: a value with the
\* top bit set (b3 >= 128) exceeds every such n.
U32Exceeds(b0, b1, b2, b3, n) ==
    IF b3 >= 128 THEN TRUE ELSE U32Le(b0, b1, b2, b3) > n

None(pos) == [some |-> FALSE, rec |-> NoRecord, position |-> pos]

\* The tail of parse_next: the payload check, the slice and the cursor move.
ReadDataMutant(d, pos, tag_id, level, size) ==
    IF pos + size > Len(d) + 1 THEN None(pos)
    ELSE [some |-> TRUE,
          rec |-> [tag_id |-> tag_id, level |-> level, size |-> size,
                   data |-> SubSeq(d, pos + 1, Min(pos + size, Len(d)))],
          position |-> pos + size]
ReadData(d, pos, tag_id, level, size) ==
    IF pos + size > Len(d) THEN None(pos)
    ELSE [some |-> TRUE,
          rec |-> [tag_id |-> tag_id, level |-> level, size |-> size,
                   data |-> SubSeq(d, pos + 1, pos + size)],
          position |-> pos + size]

\* The extended-size branch of parse_next, entered with the cursor after the header.
ReadExtendedMutant(d, pos, tag_id, level) ==
    IF pos + 4 > Len(d) THEN None(pos)
    ELSE LET e0 == d[pos + 1]
             e1 == d[pos + 2]
             e2 == d[pos + 3]
             e3 == d[pos + 4]
         IN  IF U32Exceeds(e0, e1, e2, e3, Len(d) - pos)
             THEN None(pos)
             ELSE ReadData(d, pos, tag_id, level, U32Le(e0, e1, e2, e3))
ReadExtended(d, pos, tag_id, level) ==
    IF pos + 4 > Len(d) THEN None(pos)
    ELSE LET e0 == d[pos + 1]
             e1 == d[pos + 2]
             e2 == d[pos + 3]
             e3 == d[pos + 4]
         IN  IF U32Exceeds(e0, e1, e2, e3, Len(d) - (pos + 4))
             THEN None(pos + 4)
             ELSE ReadData(d, pos + 4, tag_id, level, U32Le(e0, e1, e2, e3))

\* RecordParser::parse_next on buffer d with the cursor at pos: the Option
\* returned, and the cursor afterwards (the cursor moves past a header that was
\* read even when None is returned).
ParseNext(d, pos) ==
    IF pos + 4 > Len(d) THEN None(pos)
    ELSE LET b0 == d[pos + 1]
             b1 == d[pos + 2]
             b2 == d[pos + 3]
             b3 == d[pos + 4]
             tag_id == TagIdOf(b0, b1)
             level == LevelOf(b1, b2)
             size_field == SizeFieldOf(b2, b3)
         IN  IF size_field = SIZE_SENTINEL
             THEN ReadExtended(d, pos + 4, tag_id, level)
             ELSE ReadData(d, pos + 4, tag_id, level, size_field)

RECURSIVE ParseAll(_, _)
\* RecordParser::parse_all: the records pushed until parse_next returns None,
\* and the cursor afterwards.
ParseAll(d, pos) ==
    LET r == ParseNext(d, pos)
    IN  IF r.some
        THEN LET rest == ParseAll(d, r.position)
             IN  [records |-> <<r.rec>> \o rest.records, position |-> rest.position]
        ELSE [records |-> <<>>, position |-> r.position]

(***************************************************************************)
(* Buffers of the record decoder                                           *)
(***************************************************************************)
MaxRawLen == 8        \* raw buffers: every byte string up to this length
MaxPieces == 2        \* concatenations of up to this many encoded records
MaxSmallSize == 2     \* payload sizes of the concatenated records
BigExtra == 1         \* single records of 4096 .. 4096 + BigExtra payload bytes

RawAlphabet == {0, 16, 255}

\* header.to_le_bytes() for header = tag_id | level << 10 | size_field << 20
HeaderBytes(tag_id, level, size_field) ==
    << tag_id % 256,
       (tag_id \div 256) + (level % 64) * 4,
       (level \div 64) + (size_field % 16) * 16,
       size_field \div 16 >>

\* (size as u32).to_le_bytes(), size < 2^31
U32Bytes(n) ==
    << n % 256, (n \div 256) % 256, (n \div 65536) % 256, n \div 16777216 >>

Payload(size, seed) == [i \in 1..size |-> (seed + i) % 256]

\* One header word followed by the payload.
EncodeShort(tag_id, level, payload) ==
    HeaderBytes(tag_id, level, Len(payload)) \o payload

\* Size field 0xFFF, the true size as a u32, then the payload.
EncodeExtended(tag_id, level, payload) ==
    HeaderBytes(tag_id, level, SIZE_SENTINEL) \o U32Bytes(Len(payload)) \o payload

HWPTAG_PARA_TEXT == 67       \* 0x43
MAX_FIELD == 1023            \* 0x3FF, the largest 10-bit tag_id or level

SmallPieces ==
    {EncodeShort(HWPTAG_PARA_TEXT, 0, Payload(n, 64)) : n \in 0..MaxSmallSize}
    \cup {EncodeExtended(MAX_FIELD, 1, Payload(n, 64)) : n \in 0..MaxSmallSize}

RawBuffers == SeqsUpTo(RawAlphabet, MaxRawLen)

PieceBuffers ==
    UNION {Prefixes(Concat(ps)) : ps \in SeqsUpTo(SmallPieces, MaxPieces)}

EncTags == {0, HWPTAG_PARA_TEXT, MAX_FIELD}
EncLevels == {0, 1, MAX_FIELD}
EncShortSizes == {0, 1, 255, 4094, 4095}
EncExtendedSizes == 4096..(4096 + BigExtra)
EncSeeds == {0, 64}

\* The single records whose round trip is checked, with the way each is encoded.
EncInputs ==
    [tag_id : EncTags, level : EncLevels, size : EncShortSizes,
     seed : EncSeeds, form : {"short"}]
    \cup [tag_id : EncTags, level : EncLevels, size : EncExtendedSizes,
          seed : EncSeeds, form : {"extended"}]

Encode(e) ==
    IF e.form = "short"
    THEN EncodeShort(e.tag_id, e.level, Payload(e.size, e.seed))
    ELSE EncodeExtended(e.tag_id, e.level, Payload(e.size, e.seed))

(***************************************************************************)
(* The record decoder as a state machine: RecordParser::new, then          *)
(* parse_next and parse_all called in any order.                           *)
(***************************************************************************)
InitRecord ==
    /\ RecOthersIdle
    /\ \/ data \in RawBuffers \cup PieceBuffers /\ enc = NoRecord
       \/ \E e \in EncInputs : data = Encode(e) /\ enc = e
    /\ position = 0
    /\ out = <<>>
    /\ last = "start"
    /\ returned = NotCalled
    /\ all_from = 0

CallParseNext ==
    /\ returned = NotCalled
    /\ LET r == ParseNext(data, position)
       IN  /\ position' = r.position
           /\ last' = IF r.some THEN "some" ELSE "none"
           /\ out' = IF r.some THEN Append(out, r.rec) ELSE out
    /\ UNCHANGED <<data, returned, all_from, enc>>
    /\ UNCHANGED recOthers

CallParseAll ==
    /\ returned = NotCalled
    /\ LET r == ParseAll(data, position)
       IN  /\ returned' = [called |-> TRUE, records |-> r.records]
           /\ position' = r.position
    /\ all_from' = position
    /\ UNCHANGED <<data, out, last, enc>>
    /\ UNCHANGED recOthers

NextRecord == CallParseNext \/ CallParseAll

SpecRecord == InitRecord /\ [][NextRecord]_vars

(***************************************************************************)
(* Claims about the record decoder                                         *)
(***************************************************************************)
\* Whether a complete record (header, extended size when the size field is the
\* sentinel, and all of its payload) lies in d at offset o.
HeaderLenAt(d, o) ==
    IF SizeFieldOf(d[o + 3], d[o + 4]) = SIZE_SENTINEL THEN 8 ELSE 4

CompleteAt(d, o) ==
    /\ o + 4 <= Len(d)
    /\ IF HeaderLenAt(d, o) = 8
       THEN /\ o + 8 <= Len(d)
            /\ ~U32Exceeds(d[o + 5], d[o + 6], d[o + 7], d[o + 8], Len(d) - (o + 8))
       ELSE o + 4 + SizeFieldOf(d[o + 3], d[o + 4]) <= Len(d)

\* Whether record r is what the bytes of d at offset o encode.
EncodedAt(d, o, r) ==
    LET h == HeaderLenAt(d, o)
    IN  /\ SubSeq(d, o + 1, o + 4)
             = HeaderBytes(r.tag_id, r.level, IF h = 8 THEN SIZE_SENTINEL ELSE r.size)
        /\ h = 8 => SubSeq(d, o + 5, o + 8) = U32Bytes(r.size)
        /\ Len(r.data) = r.size
        /\ r.data = SubSeq(d, o + h + 1, o + h + r.size)

\* Whether rs is the longest run of complete records of d that starts at offset from.
LongestCompletePrefix(d, from, rs) ==
    LET off[k \in 1..(Len(rs) + 1)] ==
            IF k = 1 THEN from
            ELSE off[k - 1] + HeaderLenAt(d, off[k - 1]) + rs[k - 1].size
    IN  /\ \A k \in 1..Len(rs) : CompleteAt(d, off[k]) /\ EncodedAt(d, off[k], rs[k])
        /\ ~CompleteAt(d, off[Len(rs) + 1])

\* C1: parse_all returns exactly the longest prefix of complete records of the
\* buffer (from the cursor it was called at): every returned record is the one
\* encoded at its offset, with data.len() == size, and decoding stopped at the
\* first offset where fewer than 4 header bytes, fewer than 4 extended-size
\* bytes or fewer than size payload bytes remain.
C1_ParseAllLongestPrefix ==
    returned.called => LongestCompletePrefix(data, all_from, returned.records)

\* C1 witness: parse_all on a fresh parser returned a record with a payload and
\* dropped a tail that holds a whole header but not all of its payload.
C1_Witness ==
    /\ returned.called
    /\ all_from = 0
    /\ Len(returned.records) = 1
    /\ returned.records[1].size > 0
    /\ position < Len(data)

\* C26: once parse_next has returned None, every later call returns None and
\* the cursor no longer moves, so driving parse_next by hand yields the same
\* records as parse_all.
C26_NoneIsFinal ==
    [][(last = "none" /\ returned = NotCalled /\ returned' = NotCalled)
          => (last' = "none" /\ position' = position /\ out' = out)]_vars

\* The only result parse_next can have given on the buffer Encode(enc) once it
\* was called: the encoded record, the cursor at the end of the buffer.
RoundTrip ==
    /\ out = << [tag_id |-> enc.tag_id, level |-> enc.level, size |-> enc.size,
                 data |-> Payload(enc.size, enc.seed)] >>
    /\ position = Len(data)

\* C4 as amended: for tag_id < 1024, level < 1024 and size < 4095, the record
\* encoded as one header word followed by size payload bytes is decoded by
\* parse_next into the identical tag_id, level and size (and payload).
C4_ShortRoundTrip ==
    (enc # NoRecord /\ enc.form = "short" /\ enc.size < SIZE_SENTINEL /\ last # "start")
        => RoundTrip

\* C4 witness: a 4094-byte record with the largest tag and level was decoded.
C4_Witness ==
    /\ enc # NoRecord /\ enc.form = "short" /\ enc.size = SIZE_SENTINEL - 1
    /\ enc.tag_id = MAX_FIELD /\ enc.level = MAX_FIELD
    /\ last = "some"

\* C4 as stated: the same for every size < 4096, size 4095 (0xFFF) included.
C4_Original ==
    (enc # NoRecord /\ enc.form = "short" /\ enc.size < 4096 /\ last # "start")
        => RoundTrip

\* C5: for size >= 4096, the record encoded with size field 0xFFF, the true size
\* as a little-endian u32 and then size payload bytes is decoded by parse_next
\* into the identical tag_id, level and size, its payload being the size bytes
\* that start right after the 8 header bytes.
C5_ExtendedRoundTrip ==
    (enc # NoRecord /\ enc.form = "extended" /\ last # "start")
        => /\ RoundTrip
           /\ out[1].data = SubSeq(data, 9, 8 + enc.size)

\* C5 witness: an extended record of more than 4096 bytes was decoded.
C5_Witness ==
    /\ enc # NoRecord /\ enc.form = "extended" /\ enc.size > 4096
    /\ enc.level = MAX_FIELD
    /\ last = "some"

(***************************************************************************)
(* PARA_TEXT decoding (record.rs)                                          *)
(***************************************************************************)
CHAR_LINE_BREAK == 10          \* 0x0A
CHAR_PARA_BREAK == 13          \* 0x0D
CHAR_TAB == 9                  \* 0x09
CHAR_HYPHEN == 30              \* 0x1E
CHAR_SPACE == 32               \* 0x20
CHAR_INLINE_CTRL_START == 1    \* 0x01
CHAR_INLINE_CTRL_END == 2      \* 0x02
CHAR_SECTION_DEF == 3          \* 0x03
CHAR_FIELD_START == 4          \* 0x04
CHAR_TABLE == 11               \* 0x0B
CHAR_DRAWING == 12             \* 0x0C
INLINE_EXTRA == 14             \* the bytes of an inline control after its code unit

\* u16::from_le_bytes
U16Le(b0, b1) == b0 + b1 * 256

\* char::from_u32 of a 16-bit code: None exactly for the surrogates.
IsScalar(code) == ~(code >= 55296 /\ code <= 57343)

\* The match arm `0..=8 | 0x10..=0x1F`, reached by the codes the arms before
\* it (tab, line break, paragraph break, space, hyphen) did not take.
InControlArm(code) == code <= 8 \/ (code >= 16 /\ code <= 31)

\* The condition of the `i += 14` inside the control arm.
IsExtendedControl(code) ==
    \/ code = CHAR_INLINE_CTRL_START
    \/ code = CHAR_SECTION_DEF
    \/ code = CHAR_FIELD_START
    \/ code = CHAR_TABLE
    \/ code = CHAR_DRAWING

\* What one code unit does in both decoders: the character pushed (if any) and
\* the payload bytes skipped after the code unit.
DecodeUnit(code) ==
    IF code = CHAR_TAB THEN [push |-> TRUE, ch |-> 9, skip |-> 0]
    ELSE IF code = CHAR_LINE_BREAK THEN [push |-> TRUE, ch |-> 10, skip |-> 0]
    ELSE IF code = CHAR_PARA_BREAK THEN [push |-> TRUE, ch |-> 10, skip |-> 0]
    ELSE IF code = CHAR_SPACE THEN [push |-> TRUE, ch |-> 32, skip |-> 0]
    ELSE IF code = CHAR_HYPHEN THEN [push |-> TRUE, ch |-> 45, skip |-> 0]
    ELSE IF InControlArm(code)
         THEN [push |-> FALSE, ch |-> 0,
               skip |-> IF IsExtendedControl(code) THEN INLINE_EXTRA ELSE 0]
    ELSE [push |-> IsScalar(code), ch |-> code, skip |-> 0]

RECURSIVE ExtractFrom(_, _)
\* The loop of extract_para_text from byte offset i.
ExtractFrom(d, i) ==
    IF i + 1 < Len(d)
    THEN LET u == DecodeUnit(U16Le(d[i + 1], d[i + 2]))
             rest == ExtractFrom(d, i + 2 + u.skip)
         IN  IF u.push THEN <<u.ch>> \o rest ELSE rest
    ELSE <<>>

\* extract_para_text
ExtractParaText(d) == ExtractFrom(d, 0)

RECURSIVE PositionsFrom(_, _, _)
\* The loop of extract_para_text_with_positions from byte offset i with
\* char_pos = cp: the (position, char) pairs pushed.
PositionsFrom(d, i, cp) ==
    IF i + 1 < Len(d)
    THEN LET u == DecodeUnit(U16Le(d[i + 1], d[i + 2]))
             rest == PositionsFrom(d, i + 2 + u.skip, cp + 1)
         IN  IF u.push THEN <<[pos |-> cp, ch |-> u.ch]>> \o rest ELSE rest
    ELSE <<>>

\* extract_para_text_with_positions
ExtractParaTextWithPositions(d) == PositionsFrom(d, 0, 0)

(***************************************************************************)
(* Character shapes and style runs (record.rs)                             *)
(***************************************************************************)
NoStyle == [some |-> FALSE]
SomeStyle(id) == [some |-> TRUE, id |-> id]
NoMapping == [some |-> FALSE]

RECURSIVE MappingsFrom(_, _)
\* The loop of parse_para_char_shape from byte offset pos.
MappingsFrom(d, pos) ==
    IF pos + 8 <= Len(d)
    THEN <<[pos |-> U32Le(d[pos + 1], d[pos + 2], d[pos + 3], d[pos + 4]),
            id |-> U32Le(d[pos + 5], d[pos + 6], d[pos + 7], d[pos + 8])]>>
         \o MappingsFrom(d, pos + 8)
    ELSE <<>>

\* parse_para_char_shape: None for a payload shorter than 8 bytes.
ParseParaCharShape(d) ==
    IF Len(d) < 8 THEN NoMapping
    ELSE [some |-> TRUE, mappings |-> MappingsFrom(d, 0)]

RECURSIVE FindStyleFrom(_, _, _, _)
\* The loop of find_style_for_position from mapping index k, with current_id = cur.
FindStyleFrom(pos, m, k, cur) ==
    IF k > Len(m) THEN cur
    ELSE IF m[k].pos <= pos
         THEN FindStyleFrom(pos, m, k + 1, SomeStyle(m[k].id))
         ELSE cur

\* find_style_for_position
FindStyleForPosition(pos, m) == FindStyleFrom(pos, m, 1, NoStyle)

STRIKE == <<126, 126>>                  \* "~~"
BOLD_ITALIC == <<42, 42, 42>>           \* "***"
BOLD == <<42, 42>>                      \* "**"
ITALIC == <<42>>                        \* "*"
U_OPEN == <<60, 117, 62>>               \* "<u>"
U_CLOSE == <<60, 47, 117, 62>>          \* "</u>"

\* apply_markdown_formatting
ApplyMarkdownFormattingMutant(text, style) ==
    IF text = <<>> THEN <<>>
    ELSE LET r0 == IF style.bold /\ style.italic THEN BOLD_ITALIC \o text \o BOLD_ITALIC
                   ELSE IF style.bold THEN BOLD \o text \o BOLD
                   ELSE IF style.italic THEN ITALIC \o text \o ITALIC
                   ELSE text
             r1 == IF style.strikeout THEN STRIKE \o r0 \o STRIKE ELSE r0
         IN  IF style.underline THEN U_OPEN \o r1 \o U_CLOSE ELSE r1
ApplyMarkdownFormatting(text, style) ==
    IF text = <<>> THEN <<>>
    ELSE LET r0 == IF style.strikeout THEN STRIKE \o text \o STRIKE ELSE text
             r1 == IF style.bold /\ style.italic THEN BOLD_ITALIC \o r0 \o BOLD_ITALIC
                   ELSE IF style.bold THEN BOLD \o r0 \o BOLD
                   ELSE IF style.italic THEN ITALIC \o r0 \o ITALIC
                   ELSE r0
         IN  IF style.underline THEN U_OPEN \o r1 \o U_CLOSE ELSE r1

\* The flush of a run in extract_para_text_formatted: formatted with the
\* CharShape stored under the run's style id, as it is when there is none.
FlushRun(run, style_id, char_shapes) ==
    IF style_id.some /\ style_id.id \in DOMAIN char_shapes
    THEN ApplyMarkdownFormatting(run, char_shapes[style_id.id])
    ELSE run

RECURSIVE FormatLoopMutant(_, _, _, _, _, _, _)
FormatLoopMutant(twp, k, m, char_shapes, result, current_style_id, current_run) ==
    IF k > Len(twp)
    THEN IF current_run # <<>>
         THEN result \o FlushRun(current_run, current_style_id, char_shapes)
         ELSE result
    ELSE LET style_id == FindStyleForPosition(twp[k].pos, m)
             flush == current_run # <<>>
         IN  FormatLoopMutant(twp, k + 1, m, char_shapes,
                 IF flush
                 THEN result \o FlushRun(current_run, current_style_id, char_shapes)
                 ELSE result,
                 style_id,
                 IF flush THEN <<twp[k].ch>> ELSE Append(current_run, twp[k].ch))

RECURSIVE FormatLoop(_, _, _, _, _, _, _)
\* The loop of extract_para_text_formatted from the k-th (position, char) pair,
\* and the final flush.
FormatLoop(twp, k, m, char_shapes, result, current_style_id, current_run) ==
    IF k > Len(twp)
    THEN IF current_run # <<>>
         THEN result \o FlushRun(current_run, current_style_id, char_shapes)
         ELSE result
    ELSE LET style_id == FindStyleForPosition(twp[k].pos, m)
             flush == current_style_id # style_id /\ current_run # <<>>
         IN  FormatLoop(twp, k + 1, m, char_shapes,
                 IF flush
                 THEN result \o FlushRun(current_run, current_style_id, char_shapes)
                 ELSE result,
                 style_id,
                 IF flush THEN <<twp[k].ch>> ELSE Append(current_run, twp[k].ch))

ExtractParaTextFormattedMutant(text_data, mapping, char_shapes) ==
    LET twp == ExtractParaTextWithPositions(text_data)
    IN  IF twp = <<>> THEN <<>>
        ELSE IF mapping.some /\ mapping.mappings # <<>>
             THEN FormatLoop(twp, 1, mapping.mappings, char_shapes, <<>>, NoStyle, <<>>)
             ELSE [k \in 1..(Len(twp) - 1) |-> twp[k].ch]

\* extract_para_text_formatted; mapping is the Option<&ParaCharShapeMapping>.
ExtractParaTextFormatted(text_data, mapping, char_shapes) ==
    LET twp == ExtractParaTextWithPositions(text_data)
    IN  IF twp = <<>> THEN <<>>
        ELSE IF mapping.some /\ mapping.mappings # <<>>
             THEN FormatLoop(twp, 1, mapping.mappings, char_shapes, <<>>, NoStyle, <<>>)
             ELSE [k \in 1..Len(twp) |-> twp[k].ch]

(***************************************************************************)
(* Arguments of the text functions                                         *)
(***************************************************************************)
MaxItems == 2         \* decoded payloads: up to this many code units or inline blocks
MaxFmtUnits == 2      \* formatted payloads: up to this many code units
MaxMapEntries == 2    \* pairs in a PARA_CHAR_SHAPE payload

\* One code unit as two little-endian bytes.
Unit(code) == <<code % 256, code \div 256>>

RECURSIVE Utf16(_)
\* A sequence of code units as UTF-16LE bytes.
Utf16(codes) == IF codes = <<>> THEN <<>> ELSE Unit(Head(codes)) \o Utf16(Tail(codes))

\* The 14-byte extension block of an inline control; as text it is "xxxxxxx".
Filler == Utf16(<<120, 120, 120, 120, 120, 120, 120>>)

DecodeCodes == {1, 2, 3, 4, 9, 11, 12, 13, 30, 32, 65, 55296}
BlockCodes == {1, 3, 4, 11, 12}

TextItems ==
    {Unit(c) : c \in DecodeCodes} \cup {Unit(c) \o Filler : c \in BlockCodes}

\* How many trailing bytes are cut off a payload (odd lengths, a block cut short).
Cuts == {0, 1, 3, 15}

CutTail(d, n) == SubSeq(d, 1, IF Len(d) > n THEN Len(d) - n ELSE 0)

TextPayloads ==
    {CutTail(Concat(items), n) : items \in SeqsUpTo(TextItems, MaxItems), n \in Cuts}

FmtCodes == {65, 66, 2}
FmtPayloads == {Utf16(cs) : cs \in SeqsUpTo(FmtCodes, MaxFmtUnits)}

ShapeIds == {0, 1, 2}
MapEntries == [pos : 0..MaxFmtUnits, id : ShapeIds]
MapLists == SeqsUpTo(MapEntries, MaxMapEntries)

RECURSIVE EncodeMapping(_)
\* A PARA_CHAR_SHAPE payload: packed (u32 position, u32 shape_id) pairs.
EncodeMapping(m) ==
    IF m = <<>> THEN <<>>
    ELSE U32Bytes(Head(m).pos) \o U32Bytes(Head(m).id) \o EncodeMapping(Tail(m))

\* Payloads with and without an incomplete trailing pair.
ShapePayloads ==
    {EncodeMapping(m) \o tail : m \in MapLists, tail \in {<<>>, <<1, 0, 0, 0>>}}

Plain == [bold |-> FALSE, italic |-> FALSE, underline |-> FALSE, strikeout |-> FALSE]
CharShapes == [bold : BOOLEAN, italic : BOOLEAN, underline : BOOLEAN, strikeout : BOOLEAN]

\* The char-shape maps of the parser the formatted decoder is called with.
ShapeMaps ==
    { (0 :> Plain) @@ (1 :> [Plain EXCEPT !.bold = TRUE]),
      (1 :> [Plain EXCEPT !.bold = TRUE, !.strikeout = TRUE])
          @@ (2 :> [Plain EXCEPT !.italic = TRUE, !.underline = TRUE]) }

Mappings == {NoMapping} \cup {[some |-> TRUE, mappings |-> m] : m \in MapLists}

\* No mapping, and a mapping without pairs.
Unmapped == {NoMapping, [some |-> TRUE, mappings |-> <<>>]}

\* test_extract_para_text_formatted: "Hello World", {(0,0),(6,1)}, 0 plain, 1 bold
HelloWorld ==
    Utf16(<<72, 101, 108, 108, 111, 32, 87, 111, 114, 108, 100>>)
HelloWorldMapping ==
    [some |-> TRUE, mappings |-> <<[pos |-> 0, id |-> 0], [pos |-> 6, id |-> 1]>>]
HelloWorldShapes == (0 :> Plain) @@ (1 :> [Plain EXCEPT !.bold = TRUE])

MarkdownTexts == {<<>>, <<65>>, <<87, 111, 114, 108, 100>>, <<53580, 49828, 53944>>}

(***************************************************************************)
(* The text functions as a state machine: the arguments are chosen, then   *)
(* the functions are applied to them.                                      *)
(***************************************************************************)
InitText ==
    /\ TextOthersIdle
    /\ \/ \E d \in TextPayloads : tin = [kind |-> "decode", text_data |-> d]
       \/ \E d \in FmtPayloads, m \in Mappings, cs \in ShapeMaps :
              tin = [kind |-> "formatted", text_data |-> d, mapping |-> m,
                     char_shapes |-> cs]
       \/ \E d \in TextPayloads, m \in Unmapped, cs \in ShapeMaps :
              tin = [kind |-> "formatted", text_data |-> d, mapping |-> m,
                     char_shapes |-> cs]
       \/ tin = [kind |-> "formatted", text_data |-> HelloWorld,
                 mapping |-> HelloWorldMapping, char_shapes |-> HelloWorldShapes]
       \/ \E d \in ShapePayloads : tin = [kind |-> "style", shape_data |-> d]
       \/ \E t \in MarkdownTexts, st \in CharShapes :
              tin = [kind |-> "markdown", text |-> t, style |-> st]
    /\ plain = NotCalled
    /\ positioned = NotCalled
    /\ formatted = NotCalled
    /\ style_at = NotCalled
    /\ marked = NotCalled

CallExtractParaText ==
    /\ tin.kind \in {"decode", "formatted"}
    /\ plain' = [called |-> TRUE, text |-> ExtractParaText(tin.text_data)]
    /\ UNCHANGED <<tin, positioned, formatted, style_at, marked>>
    /\ UNCHANGED textOthers

CallExtractParaTextWithPositions ==
    /\ tin.kind = "decode"
    /\ positioned' = [called |-> TRUE, pairs |-> ExtractParaTextWithPositions(tin.text_data)]
    /\ UNCHANGED <<tin, plain, formatted, style_at, marked>>
    /\ UNCHANGED textOthers

CallExtractParaTextFormatted ==
    /\ tin.kind = "formatted"
    /\ formatted' = [called |-> TRUE,
                     text |-> ExtractParaTextFormatted(tin.text_data, tin.mapping,
                                                       tin.char_shapes)]
    /\ UNCHANGED <<tin, plain, positioned, style_at, marked>>
    /\ UNCHANGED textOthers

\* parse_para_char_shape on the payload, then find_style_for_position on what
\* it produced.
CallFindStyleForPosition ==
    /\ tin.kind = "style"
    /\ LET m == ParseParaCharShape(tin.shape_data)
       IN  /\ m.some
           /\ \E p \in 0..(MaxFmtUnits + 1) :
                  style_at' = [called |-> TRUE, pos |-> p, mappings |-> m.mappings,
                               style |-> FindStyleForPosition(p, m.mappings)]
    /\ UNCHANGED <<tin, plain, positioned, formatted, marked>>
    /\ UNCHANGED textOthers

CallApplyMarkdownFormatting ==
    /\ tin.kind = "markdown"
    /\ marked' = [called |-> TRUE, text |-> ApplyMarkdownFormatting(tin.text, tin.style)]
    /\ UNCHANGED <<tin, plain, positioned, formatted, style_at>>
    /\ UNCHANGED textOthers

NextText ==
    \/ CallExtractParaText
    \/ CallExtractParaTextWithPositions
    \/ CallExtractParaTextFormatted
    \/ CallFindStyleForPosition
    \/ CallApplyMarkdownFormatting

SpecText == InitText /\ [][NextText]_vars

(***************************************************************************)
(* Claims about text decoding and formatting                               *)
(***************************************************************************)
\* The decoders as the claim has them: each of the five inline-control code
\* units pushes nothing and skips 14 bytes, every other code unit does what
\* the decoder does with it.
ClaimedUnit(code) ==
    IF code \in {CHAR_INLINE_CTRL_START, CHAR_SECTION_DEF, CHAR_FIELD_START,
                 CHAR_TABLE, CHAR_DRAWING}
    THEN [push |-> FALSE, ch |-> 0, skip |-> INLINE_EXTRA]
    ELSE DecodeUnit(code)

RECURSIVE ClaimedText(_, _)
ClaimedText(d, i) ==
    IF i + 1 < Len(d)
    THEN LET u == ClaimedUnit(U16Le(d[i + 1], d[i + 2]))
             rest == ClaimedText(d, i + 2 + u.skip)
         IN  IF u.push THEN <<u.ch>> \o rest ELSE rest
    ELSE <<>>

Chars(pairs) == [k \in 1..Len(pairs) |-> pairs[k].ch]

\* C6: in extract_para_text and extract_para_text_with_positions each of the
\* code units 0x01, 0x03, 0x04, 0x0B and 0x0C makes the decoder skip the next
\* 14 payload bytes and adds no character to the output.
C6_InlineControlsSkipped ==
    /\ plain.called => plain.text = ClaimedText(tin.text_data, 0)
    /\ positioned.called => Chars(positioned.pairs) = ClaimedText(tin.text_data, 0)

\* The id of the last pair of the longest leading run of pairs whose positions
\* are all <= p: the shape_id active at position p (no style when the first
\* pair lies after p).
ActiveId(p, m) ==
    LET lead == {j \in 0..Len(m) : \A i \in 1..j : m[i].pos <= p}
        k == CHOOSE j \in lead : \A i \in lead : i <= j
    IN  IF k = 0 THEN NoStyle ELSE SomeStyle(m[k].id)

\* The markers of a CharShape from the outside in, and from the inside out.
OpenMarkers(st) ==
    (IF st.underline THEN U_OPEN ELSE <<>>)
    \o (IF st.bold /\ st.italic THEN BOLD_ITALIC
        ELSE IF st.bold THEN BOLD ELSE IF st.italic THEN ITALIC ELSE <<>>)
    \o (IF st.strikeout THEN STRIKE ELSE <<>>)
CloseMarkers(st) ==
    (IF st.strikeout THEN STRIKE ELSE <<>>)
    \o (IF st.bold /\ st.italic THEN BOLD_ITALIC
        ELSE IF st.bold THEN BOLD ELSE IF st.italic THEN ITALIC ELSE <<>>)
    \o (IF st.underline THEN U_CLOSE ELSE <<>>)

MarkedUp(text, st) ==
    IF text = <<>> THEN <<>> ELSE OpenMarkers(st) \o text \o CloseMarkers(st)

\* The text of the maximal runs of pairs k.. that share their active shape_id,
\* each marked up with the CharShape stored under its id (if any).
RECURSIVE RunsFrom(_, _, _, _)
RunsFrom(pairs, k, m, char_shapes) ==
    IF k > Len(pairs) THEN <<>>
    ELSE LET id == ActiveId(pairs[k].pos, m)
             ends == {e \in k..Len(pairs) :
                         \A j \in k..e : ActiveId(pairs[j].pos, m) = id}
             e == CHOOSE x \in ends : \A y \in ends : y <= x
             run == [j \in 1..(e - k + 1) |-> pairs[k + j - 1].ch]
         IN  (IF id.some /\ id.id \in DOMAIN char_shapes
              THEN MarkedUp(run, char_shapes[id.id])
              ELSE run)
             \o RunsFrom(pairs, e + 1, m, char_shapes)

\* C7: with a non-empty style mapping, extract_para_text_formatted returns the
\* concatenation, in text order, of the maximal runs of consecutive characters
\* that share the same active shape_id, each run formatted with the CharShape
\* stored under its shape_id; a run whose shape_id is not in the char-shape
\* map, or that lies before the first mapping position, is emitted unformatted.
C7_StyleRuns ==
    (formatted.called /\ tin.mapping.some /\ tin.mapping.mappings # <<>>)
        => formatted.text
               = RunsFrom(ExtractParaTextWithPositions(tin.text_data), 1,
                          tin.mapping.mappings, tin.char_shapes)

\* C7 witness: "Hello World" with {(0,0),(6,1)} gave "Hello **World**".
C7_Witness ==
    /\ formatted.called
    /\ tin.text_data = HelloWorld
    /\ formatted.text
           = <<72, 101, 108, 108, 111, 32, 42, 42, 87, 111, 114, 108, 100, 42, 42>>

\* The shape_id of the last pair of m whose position is <= p.
LastPairAtOrBefore(p, m) ==
    LET at == {k \in 1..Len(m) : m[k].pos <= p}
    IN  IF at = {} THEN NoStyle
        ELSE SomeStyle(m[CHOOSE k \in at : \A j \in at : j <= k].id)

\* C8: for every mapping parse_para_char_shape produces from a payload and
\* every position p, the style applied at p is the shape_id of the last
\* mapping pair whose position is <= p, and no style when there is none.
C8_StyleIsLastPairAtOrBefore ==
    style_at.called => style_at.style = LastPairAtOrBefore(style_at.pos, style_at.mappings)

\* C9: apply_markdown_formatting wraps a non-empty text in the fixed nesting
\* order (~~ innermost, then ***, ** or *, then <u>..</u> outermost), returns
\* it unchanged when no flag is set, and gives the empty string for an empty
\* text, for every CharShape.
C9_MarkdownNesting ==
    marked.called
        => /\ marked.text = MarkedUp(tin.text, tin.style)
           /\ tin.style = Plain => marked.text = tin.text
           /\ tin.text = <<>> => marked.text = <<>>

\* C9 witness: "World" bold and struck out gave "**~~World~~**".
C9_Witness ==
    /\ marked.called
    /\ tin.style = [Plain EXCEPT !.bold = TRUE, !.strikeout = TRUE]
    /\ marked.text = <<42, 42, 126, 126, 87, 111, 114, 108, 100, 126, 126, 42, 42>>

\* C25: for every PARA_TEXT payload, extract_para_text_formatted called with
\* no style mapping (or with an empty one) returns exactly the string
\* extract_para_text returns for that payload.
C25_UnmappedIsPlain ==
    (formatted.called /\ plain.called /\ tin.mapping \in Unmapped)
        => formatted.text = plain.text

\* Both functions have been called on a payload that holds an inline control
\* with its 14-byte block and a letter, with an empty mapping.
C25_Witness ==
    /\ formatted.called
    /\ plain.called
    /\ tin.mapping = [some |-> TRUE, mappings |-> <<>>]
    /\ tin.text_data = Unit(CHAR_FIELD_START) \o Filler \o Unit(65)
    /\ formatted.text = <<65>>

(***************************************************************************)
(* The loop shared by extract_para_text and                                *)
(* extract_para_text_with_positions, one iteration at a time.  The byte    *)
(* offsets the loop reads are recorded; indexing the slice at or beyond    *)
(* its length panics.                                                      *)
(***************************************************************************)
\* `while i + 1 < data.len()`
LoopConditionMutant(i, len) == i < len
LoopCondition(i, len) == i + 1 < len

DecodeFns == {"extract_para_text", "extract_para_text_with_positions"}

InitDecode ==
    /\ DecOthersIdle
    /\ \E d \in TextPayloads, f \in DecodeFns :
           dloop = [pc |-> "loop", fn |-> f, data |-> d, i |-> 0, char_pos |-> 0,
                    result |-> <<>>, pairs |-> <<>>, reads |-> {}]

\* One iteration: the code unit at data[i], data[i + 1] is read, i += 2, and
\* the match pushes a character and/or skips the 14 bytes of an inline block.
DecodeIteration ==
    /\ dloop.pc = "loop"
    /\ LoopCondition(dloop.i, Len(dloop.data))
    /\ IF dloop.i + 1 >= Len(dloop.data)
       THEN dloop' = [dloop EXCEPT !.pc = "panicked",
                                   !.reads = @ \cup {dloop.i, dloop.i + 1}]
       ELSE LET u == DecodeUnit(U16Le(dloop.data[dloop.i + 1], dloop.data[dloop.i + 2]))
            IN  dloop' = [dloop EXCEPT
                    !.i = @ + 2 + u.skip,
                    !.reads = @ \cup {dloop.i, dloop.i + 1},
                    !.result = IF u.push /\ dloop.fn = "extract_para_text"
                               THEN Append(@, u.ch) ELSE @,
                    !.pairs = IF u.push /\ dloop.fn = "extract_para_text_with_positions"
                              THEN Append(@, [pos |-> dloop.char_pos, ch |-> u.ch]) ELSE @,
                    !.char_pos = IF dloop.fn = "extract_para_text_with_positions"
                                 THEN @ + 1 ELSE @]
    /\ UNCHANGED decOthers

\* The loop condition fails: the function returns.
DecodeReturn ==
    /\ dloop.pc = "loop"
    /\ ~LoopCondition(dloop.i, Len(dloop.data))
    /\ dloop' = [dloop EXCEPT !.pc = "done"]
    /\ UNCHANGED decOthers

NextDecode == DecodeIteration \/ DecodeReturn

\* The function runs: an enabled step of it is eventually taken.
SpecDecode == InitDecode /\ [][NextDecode]_vars /\ WF_vars(NextDecode)

\* C27: for every PARA_TEXT payload, including odd lengths and payloads that
\* end inside the 14-byte block of an inline control, extract_para_text and
\* extract_para_text_with_positions terminate and never read a byte at or
\* beyond the payload length; a trailing single byte is ignored.
C27_DecodersStayInBounds ==
    /\ [](/\ dloop.pc # "panicked"
          /\ \A off \in dloop.reads : off < Len(dloop.data)
          /\ Len(dloop.data) % 2 = 1 => (Len(dloop.data) - 1) \notin dloop.reads
          /\ dloop.pc = "done" =>
                /\ dloop.fn = "extract_para_text" =>
                       dloop.result = ExtractParaText(dloop.data)
                /\ dloop.fn = "extract_para_text_with_positions" =>
                       dloop.pairs = ExtractParaTextWithPositions(dloop.data))
    /\ <>(dloop.pc = "done")

\* A decoder has returned on a payload of odd length that ends inside the
\* block of an inline control, with the cursor beyond the end.
C27_Witness ==
    /\ dloop.pc = "done"
    /\ Len(dloop.data) % 2 = 1
    /\ dloop.i > Len(dloop.data)
    /\ dloop.reads # {}

(***************************************************************************)
(* Table reconstruction: parse_table_info, parse_cell_list_header          *)
(* (record.rs), organize_cells and the record loop of extract_tables       *)
(* (parser.rs)                                                             *)
(***************************************************************************)
HWPTAG_PARA_HEADER == 66     \* 0x42
HWPTAG_LIST_HEADER == 72     \* 0x48
HWPTAG_TABLE == 77           \* 0x4D
U16_MAX == 65535

\* Whether rows * cols overflows u16, and the product a wrapping build gives
\* (neither uses a number above 2^31).
MulOverflowsU16(a, b) == a # 0 /\ b > U16_MAX \div a
WrappingMulU16(a, b) ==
    (a * (b % 256) + ((a * (b \div 256)) % 256) * 256) % (U16_MAX + 1)

\* `rows * cols` on u16: a panic in a build with overflow checks, the wrapped
\* product otherwise.
MulU16(a, b, checks) ==
    IF MulOverflowsU16(a, b)
    THEN [fault |-> checks, value |-> WrappingMulU16(a, b)]
    ELSE [fault |-> FALSE, value |-> a * b]

\* The row heights parse_table_info pushes.
RowHeights(d, rows) ==
    IF Len(d) >= 18 + rows * 2
    THEN [i \in 1..rows |-> U16Le(d[18 + (i - 1) * 2 + 1], d[18 + (i - 1) * 2 + 2])]
    ELSE <<>>

\* parse_table_info: None for a payload shorter than 8 bytes; fault when
\* rows * cols panics.
ParseTableInfo(d, checks) ==
    IF Len(d) < 8 THEN [some |-> FALSE, fault |-> FALSE]
    ELSE LET rows == U16Le(d[5], d[6])
             cols == U16Le(d[7], d[8])
             cell_count == MulU16(rows, cols, checks)
         IN  IF cell_count.fault THEN [some |-> FALSE, fault |-> TRUE]
             ELSE [some |-> TRUE, fault |-> FALSE, rows |-> rows, cols |-> cols,
                   cell_count |-> cell_count.value,
                   row_heights |-> RowHeights(d, rows)]

Max1(n) == IF n < 1 THEN 1 ELSE n

\* parse_cell_list_header: None for a payload shorter than 26 bytes.
ParseCellListHeader(d) ==
    IF Len(d) < 26 THEN [some |-> FALSE]
    ELSE [some |-> TRUE, row |-> 0, col |-> 0,
          row_span |-> Max1(U16Le(d[25], d[26])),
          col_span |-> Max1(U16Le(d[23], d[24]))]

RECURSIVE Chunks(_, _)
\* cells.chunks(cols), for cols > 0
Chunks(cells, cols) ==
    IF cells = <<>> THEN <<>>
    ELSE IF Len(cells) <= cols THEN <<cells>>
    ELSE <<SubSeq(cells, 1, cols)>> \o Chunks(SubSeq(cells, cols + 1, Len(cells)), cols)

\* organize_cells
OrganizeCellsMutant(cells, cols) ==
    IF cols = 0 THEN <<>> ELSE Chunks(cells, cols + 1)
OrganizeCells(cells, cols) ==
    IF cols = 0 THEN <<>> ELSE Chunks(cells, cols)

\* The push of the current table: its cells organized, its spans attached.
PushTable(st) ==
    LET t == st.current_table
    IN  [st EXCEPT
            !.tables = Append(@, [rows |-> t.rows, cols |-> t.cols,
                                  cells |-> OrganizeCells(st.current_cells, t.cols),
                                  cell_spans |-> st.current_cell_spans]),
            !.flats = Append(@, st.current_cells),
            !.current_table = NoTable]

\* The HWPTAG_TABLE arm.
TableArm(st, rec, checks) ==
    LET closed == IF st.current_table.some
                  THEN [PushTable(st) EXCEPT !.current_cells = <<>>,
                                             !.current_cell_spans = <<>>]
                  ELSE st
        info == ParseTableInfo(rec.data, checks)
    IN  IF info.fault
        THEN [closed EXCEPT !.fault = "overflow", !.decoded = Append(@, rec.data)]
        ELSE IF info.some
        THEN [closed EXCEPT
                !.current_table = [some |-> TRUE, rows |-> info.rows, cols |-> info.cols,
                                   cells |-> <<>>, cell_spans |-> <<>>],
                !.table_info = [some |-> TRUE, rows |-> info.rows, cols |-> info.cols],
                !.in_table = TRUE,
                !.cell_index = 0,
                !.decoded = Append(@, rec.data)]
        ELSE closed

\* The `HWPTAG_LIST_HEADER if in_table` arm.
ListHeaderArm(st, rec) ==
    IF ~st.table_info.some THEN st
    ELSE LET cols == st.table_info.cols
             span == ParseCellListHeader(rec.data)
         IN  IF span.some /\ cols = 0 THEN [st EXCEPT !.fault = "div_by_zero"]
             ELSE IF span.some /\ (span.row_span > 1 \/ span.col_span > 1)
             THEN [st EXCEPT
                     !.current_cell_spans =
                         Append(@, [span EXCEPT
                                      !.row = (st.cell_index \div cols) % (U16_MAX + 1),
                                      !.col = (st.cell_index % cols) % (U16_MAX + 1)]),
                     !.cell_index = @ + 1]
             ELSE [st EXCEPT !.cell_index = @ + 1]

\* The `HWPTAG_PARA_TEXT if in_table` arm.
ParaTextArm(st, rec, checks) ==
    LET pushed == [st EXCEPT !.current_cells = Append(@, ExtractParaText(rec.data))]
    IN  IF ~st.table_info.some THEN pushed
        ELSE LET cell_count == MulU16(st.table_info.rows, st.table_info.cols, checks)
             IN  IF cell_count.fault THEN [pushed EXCEPT !.fault = "overflow"]
                 ELSE IF Len(pushed.current_cells) >= cell_count.value
                         /\ pushed.current_table.some
                 THEN [PushTable(pushed) EXCEPT
                         !.current_cells = <<>>,
                         !.current_cell_spans = <<>>,
                         !.in_table = FALSE,
                         !.table_info = NoInfo]
                 ELSE pushed

\* One iteration of `for record in &records` in extract_tables.
TableStep(st, rec, checks) ==
    IF rec.tag_id = HWPTAG_TABLE THEN TableArm(st, rec, checks)
    ELSE IF rec.tag_id = HWPTAG_LIST_HEADER /\ st.in_table THEN ListHeaderArm(st, rec)
    ELSE IF rec.tag_id = HWPTAG_PARA_TEXT /\ st.in_table THEN ParaTextArm(st, rec, checks)
    ELSE st

\* "Handle last table", after the loop.
TableFinish(st) ==
    IF st.current_table.some THEN PushTable(st) ELSE st

(***************************************************************************)
(* Records of a section, as the table loop meets them                      *)
(***************************************************************************)
MaxScan == 5          \* records scanned in one section

Rec(tag_id, payload) ==
    [tag_id |-> tag_id, level |-> 0, size |-> Len(payload), data |-> payload]

Zeros(n) == [i \in 1..n |-> 0]

\* TABLE payload: flags, rows, cols (8 bytes), more bytes after them.
TablePayload(rows, cols, more) == Zeros(4) \o Unit(rows) \o Unit(cols) \o more

\* LIST_HEADER payload: col_span at [22,24), row_span at [24,26).
ListHeaderPayload(col_span, row_span) == Zeros(22) \o Unit(col_span) \o Unit(row_span)

TableDims == {<<1, 2>>, <<2, 2>>, <<0, 2>>, <<1, 0>>, <<256, 256>>}

TableRecords ==
    {Rec(HWPTAG_TABLE, TablePayload(rc[1], rc[2], <<>>)) : rc \in TableDims}
    \cup {Rec(HWPTAG_TABLE, Zeros(7))}

ListHeaderRecords ==
    {Rec(HWPTAG_LIST_HEADER, ListHeaderPayload(s[1], s[2])) :
        s \in {<<1, 1>>, <<2, 1>>}}
    \cup {Rec(HWPTAG_LIST_HEADER, Zeros(25))}

CellTexts == {<<65>>, <<66>>}

ParaTextRecords == {Rec(HWPTAG_PARA_TEXT, Utf16(t)) : t \in CellTexts}

ScanRecords ==
    TableRecords \cup ListHeaderRecords \cup ParaTextRecords
    \cup {Rec(HWPTAG_PARA_HEADER, <<>>)}

(***************************************************************************)
(* The record loop of extract_tables as a state machine: one section, its  *)
(* records taken one at a time, then the last-table step.                  *)
(***************************************************************************)
InitScan ==
    /\ ScanOthersIdle
    /\ scan = ScanStart
    /\ scan_pc = "loop"
    /\ n_scanned = 0
    /\ scan_seen = <<>>
    /\ overflow_checks \in BOOLEAN

ScanRecord ==
    /\ scan_pc = "loop"
    /\ n_scanned < MaxScan
    /\ \E rec \in ScanRecords :
           /\ scan' = TableStep(scan, rec, overflow_checks)
           /\ scan_pc' = IF scan'.fault # "none" THEN "panicked" ELSE "loop"
           /\ scan_seen' = Append(scan_seen, rec)
    /\ n_scanned' = n_scanned + 1
    /\ UNCHANGED overflow_checks
    /\ UNCHANGED scanOthers

FinishScan ==
    /\ scan_pc = "loop"
    /\ scan' = TableFinish(scan)
    /\ scan_pc' = "done"
    /\ UNCHANGED <<n_scanned, scan_seen, overflow_checks>>
    /\ UNCHANGED scanOthers

NextScan == ScanRecord \/ FinishScan

SpecScan == InitScan /\ [][NextScan]_vars

\* C3: for every sequence of records in a section, table reconstruction
\* completes without a runtime fault (no division by zero, no arithmetic
\* overflow panic) and returns the tables it could assemble.
C3_NoRuntimeFault == scan_pc # "panicked"

\* Table i is laid out as exactly `rows` rows of exactly `cols` strings, row-major
\* over the strings collected up to its close.
ExactRowMajor(t, flat) ==
    /\ Len(t.cells) = t.rows
    /\ \A r \in 1..Len(t.cells) : Len(t.cells[r]) = t.cols
    /\ Len(flat) = t.rows * t.cols
    /\ \A r \in 1..t.rows : \A c \in 1..t.cols :
           t.cells[r][c] = flat[(r - 1) * t.cols + c]

\* C10: every TableData returned by table reconstruction has its cells laid
\* out row-major as exactly `rows` rows of exactly `cols` strings each, however
\* the table was closed.
C10_ExactRowsOfCols ==
    scan_pc = "done" =>
        \A i \in 1..Len(scan.tables) : ExactRowMajor(scan.tables[i], scan.flats[i])

\* C11: table reconstruction emits exactly one TableData for every TABLE record
\* whose payload has at least 8 bytes, in the order of the TABLE records: when
\* the scan of the section has ended, the i-th table returned has the rows and
\* cols of the i-th such record, and there are as many tables as such records.
C11_OneTablePerTableRecord ==
    scan_pc \in {"done", "panicked"} =>
        /\ scan_pc = "done"
        /\ Len(scan.tables) = Len(scan.decoded)
        /\ \A i \in 1..Len(scan.tables) :
               /\ scan.tables[i].rows = U16Le(scan.decoded[i][5], scan.decoded[i][6])
               /\ scan.tables[i].cols = U16Le(scan.decoded[i][7], scan.decoded[i][8])

\* A TABLE record has just opened a table.
TableOpens ==
    /\ Len(scan'.decoded) = Len(scan.decoded) + 1
    /\ scan'.current_table.some

\* A PARA_TEXT or LIST_HEADER record has been taken while no table is open.
TakenWithNoTableOpen ==
    /\ scan_pc = "loop"
    /\ scan_pc' = "loop"
    /\ ~scan.current_table.some
    /\ scan'.decoded = scan.decoded

\* C20: the cell buffer, the span buffer and the cell index are empty/zero
\* whenever a table opens, and a PARA_TEXT or LIST_HEADER record met while no
\* table is open changes no buffer: so every cell string and every CellSpan of
\* an emitted table comes from the records between its TABLE record and its close.
C20_BuffersBelongToTheOpenTable ==
    [][/\ TableOpens =>
            /\ scan'.current_cells = <<>>
            /\ scan'.current_cell_spans = <<>>
            /\ scan'.cell_index = 0
       /\ TakenWithNoTableOpen =>
            /\ scan'.current_cells = scan.current_cells
            /\ scan'.current_cell_spans = scan.current_cell_spans]_vars

\* The index of the last TABLE record of the list (0 if there is none), and
\* the LIST_HEADER records after it.
LastTableAt(rs) ==
    LET at == {i \in 1..Len(rs) : rs[i].tag_id = HWPTAG_TABLE}
    IN  IF at = {} THEN 0 ELSE CHOOSE i \in at : \A j \in at : j <= i
HeadersSinceTable(rs) ==
    Cardinality({i \in (LastTableAt(rs) + 1)..Len(rs) : rs[i].tag_id = HWPTAG_LIST_HEADER})

\* The loop has just taken a LIST_HEADER record while a table is open.
ListHeaderInOpenTable ==
    /\ scan_pc = "loop"
    /\ Len(scan_seen') = Len(scan_seen) + 1
    /\ scan_seen'[Len(scan_seen')].tag_id = HWPTAG_LIST_HEADER
    /\ scan.current_table.some

\* The spans a LIST_HEADER payload holds, clamped to a minimum of 1.
ColSpanOf(d) == Max1(U16Le(d[23], d[24]))
RowSpanOf(d) == Max1(U16Le(d[25], d[26]))
IsSpanning(d) == Len(d) >= 26 /\ (RowSpanOf(d) > 1 \/ ColSpanOf(d) > 1)

\* C23: for the k-th LIST_HEADER record (from 0) met after a table's TABLE
\* record while the table is open, a CellSpan is recorded exactly when the
\* payload has at least 26 bytes and, after clamping col_span and row_span to
\* a minimum of 1, row_span > 1 or col_span > 1; the span recorded has
\* row = k / cols and col = k % cols; every such record advances k by one.
C23_SpanOfKthListHeader ==
    [][ListHeaderInOpenTable =>
          LET d == scan_seen'[Len(scan_seen')].data
              k == HeadersSinceTable(scan_seen)
              cols == scan.current_table.cols
          IN  /\ scan_pc' = "loop"
              /\ scan'.cell_index = k + 1
              /\ IF IsSpanning(d)
                 THEN /\ Len(scan'.current_cell_spans) = Len(scan.current_cell_spans) + 1
                      /\ SubSeq(scan'.current_cell_spans, 1, Len(scan.current_cell_spans))
                             = scan.current_cell_spans
                      /\ LET span == scan'.current_cell_spans[Len(scan'.current_cell_spans)]
                         IN  /\ span.row = k \div cols
                             /\ span.col = k % cols
                             /\ span.row_span = RowSpanOf(d)
                             /\ span.col_span = ColSpanOf(d)
                 ELSE scan'.current_cell_spans = scan.current_cell_spans]_vars

\* The loop has just taken a TABLE record whose payload decodes.
TableRecordTaken ==
    /\ scan_pc = "loop"
    /\ Len(scan_seen') = Len(scan_seen) + 1
    /\ scan_seen'[Len(scan_seen')].tag_id = HWPTAG_TABLE
    /\ Len(scan_seen'[Len(scan_seen')].data) >= 8

\* The loop has just taken a PARA_TEXT record while a table is open.
ParaTextInOpenTable ==
    /\ scan_pc = "loop"
    /\ Len(scan_seen') = Len(scan_seen) + 1
    /\ scan_seen'[Len(scan_seen')].tag_id = HWPTAG_PARA_TEXT
    /\ scan.current_table.some

\* C24: for every rows and cols in 0..65535, parse_table_info yields
\* cell_count equal to the mathematical product rows * cols, and the table is
\* closed by count exactly when the collected cells reach that product: no
\* 16-bit overflow or wrap-around happens in either computation.
C24_CellCountIsTheProduct ==
    [][/\ TableRecordTaken =>
            LET d == scan_seen'[Len(scan_seen')].data
                info == ParseTableInfo(d, overflow_checks)
            IN  /\ info.some
                /\ info.cell_count = U16Le(d[5], d[6]) * U16Le(d[7], d[8])
       /\ ParaTextInOpenTable =>
            /\ scan_pc' = "loop"
            /\ (Len(scan'.tables) = Len(scan.tables) + 1)
                   <=> (Len(scan.current_cells) + 1
                            >= scan.current_table.rows * scan.current_table.cols)]_vars

\* A span lies inside a rows x cols grid.
InsideGrid(span, rows, cols) ==
    /\ span.row < rows
    /\ span.col < cols
    /\ span.row + span.row_span <= rows
    /\ span.col + span.col_span <= cols

\* C28: every CellSpan in an emitted TableData lies inside the table's grid:
\* row < rows, col < cols, row + row_span <= rows and col + col_span <= cols.
C28_SpansInsideTheGrid ==
    \A i \in 1..Len(scan.tables) :
        \A j \in 1..Len(scan.tables[i].cell_spans) :
            InsideGrid(scan.tables[i].cell_spans[j], scan.tables[i].rows, scan.tables[i].cols)

(***************************************************************************)
(* OleReader (ole.rs).  A stream of the container is its raw bytes         *)
(* together with what flate2's ZlibDecoder and DeflateDecoder make of      *)
(* them.                                                                   *)
(***************************************************************************)
NoStream == [exists |-> FALSE]
Fails == [ok |-> FALSE]
Gives(d) == [ok |-> TRUE, data |-> d]
Stream(raw, zlib, deflate) ==
    [exists |-> TRUE, raw |-> raw, zlib |-> zlib, deflate |-> deflate]

\* io::Result
Err == [ok |-> FALSE]
Ok(v) == [ok |-> TRUE, value |-> v]

\* (flags & (1 << i)) != 0, for flags = u32::from_le_bytes(d[0..4])
FlagBit(d, i) == (d[(i \div 8) + 1] \div (2 ^ (i % 8))) % 2 = 1

FlagsFromBytesMutant(d) ==
    IF Len(d) < 4 THEN DefaultFlags
    ELSE [compressed |-> FlagBit(d, 0),
          encrypted |-> FlagBit(d, 1),
          distributed |-> FlagBit(d, 2),
          script_saved |-> FlagBit(d, 3),
          drm_protected |-> FlagBit(d, 4),
          xml_template |-> FlagBit(d, 5),
          history |-> FlagBit(d, 6),
          signature |-> FlagBit(d, 7),
          certificate_encrypted |-> FlagBit(d, 8),
          certificate_drm |-> FlagBit(d, 9),
          ccl |-> FlagBit(d, 10),
          mobile_optimized |-> FlagBit(d, 11),
          private_info_security |-> FlagBit(d, 12),
          track_changes |-> FlagBit(d, 13),
          kogl |-> FlagBit(d, 14),
          video_control |-> FlagBit(d, 15),
          order_field_control |-> FlagBit(d, 17)]

\* HwpFlags::from_bytes
FlagsFromBytes(d) ==
    IF Len(d) < 4 THEN DefaultFlags
    ELSE [compressed |-> FlagBit(d, 0),
          encrypted |-> FlagBit(d, 1),
          distributed |-> FlagBit(d, 2),
          script_saved |-> FlagBit(d, 3),
          drm_protected |-> FlagBit(d, 4),
          xml_template |-> FlagBit(d, 5),
          history |-> FlagBit(d, 6),
          signature |-> FlagBit(d, 7),
          certificate_encrypted |-> FlagBit(d, 8),
          certificate_drm |-> FlagBit(d, 9),
          ccl |-> FlagBit(d, 10),
          mobile_optimized |-> FlagBit(d, 11),
          private_info_security |-> FlagBit(d, 12),
          track_changes |-> FlagBit(d, 13),
          kogl |-> FlagBit(d, 14),
          video_control |-> FlagBit(d, 15),
          order_field_control |-> FlagBit(d, 16)]

\* read_stream
ReadStream(s) == IF s.exists THEN Ok(s.raw) ELSE Err

\* The flags OleReader::open leaves in the reader.
OpenFlags(cf) ==
    LET header == ReadStream(cf.file_header)
    IN  IF header.ok /\ Len(header.value) >= 40
        THEN FlagsFromBytes(SubSeq(header.value, 37, 40))
        ELSE DefaultFlags

DecompressZlibMutant(s) ==
    IF s.zlib.ok THEN Ok(s.zlib.data)
    ELSE IF s.deflate.ok THEN Ok(s.deflate.data)
    ELSE Err

\* The decoders decompress_zlib runs on the data, in order.
DecodersRun(s) ==
    IF s.zlib.ok /\ s.zlib.data # <<>> THEN <<"zlib">> ELSE <<"zlib", "deflate">>

\* decompress_zlib: zlib first, taken when it succeeds with a non-empty
\* output, raw deflate otherwise.
DecompressZlib(s) ==
    IF s.zlib.ok /\ s.zlib.data # <<>> THEN Ok(s.zlib.data)
    ELSE IF s.deflate.ok THEN Ok(s.deflate.data)
    ELSE Err

\* read_compressed_stream
ReadCompressedStream(s, fl) ==
    IF ~ReadStream(s).ok THEN Err
    ELSE IF ~fl.compressed THEN Ok(s.raw)
    ELSE DecompressZlib(s)

\* read_file_header
ReadFileHeader(cf) == ReadStream(cf.file_header)

\* read_doc_info
ReadDocInfo(cf, fl) == ReadCompressedStream(cf.doc_info, fl)

\* read_body_text: the stream named BodyText/Section{section}
ReadBodyText(cf, fl, section) ==
    ReadCompressedStream(IF section \in DOMAIN cf.sections
                         THEN cf.sections[section] ELSE NoStream, fl)

\* list_bin_data
ListBinData(cf) == [i \in 1..Len(cf.bin_data) |-> cf.bin_data[i].name]

ReadBinDataMutant(cf, name) ==
    IF \E i \in 1..Len(cf.bin_data) : cf.bin_data[i].name = name
    THEN DecompressZlib(cf.bin_data[CHOOSE i \in 1..Len(cf.bin_data) :
                                        cf.bin_data[i].name = name].stream)
    ELSE Err

\* read_bin_data: decompressed when that works, the raw bytes otherwise
ReadBinData(cf, name) ==
    IF \E i \in 1..Len(cf.bin_data) : cf.bin_data[i].name = name
    THEN LET s == cf.bin_data[CHOOSE i \in 1..Len(cf.bin_data) :
                                  cf.bin_data[i].name = name].stream
             inflated == DecompressZlib(s)
         IN  IF inflated.ok THEN inflated ELSE Ok(s.raw)
    ELSE Err

\* section_count: the streams whose path starts with /BodyText/Section
SectionCount(cf) == Cardinality(DOMAIN cf.sections)

(***************************************************************************)
(* HwpParser (parser.rs): DocInfo and the paragraph pass                   *)
(***************************************************************************)
HWPTAG_CHAR_SHAPE == 5           \* 0x05
HWPTAG_PARA_CHAR_SHAPE == 68     \* 0x44

ParseCharShapeMutant(d) ==
    IF Len(d) < 50 THEN [some |-> FALSE]
    ELSE [some |-> TRUE,
          shape |-> [bold |-> (d[47] \div 2) % 2 = 1,
                     italic |-> d[47] % 2 = 1,
                     underline |-> (d[47] \div 4) % 4 # 0,
                     strikeout |-> d[49] % 16 # 0]]

\* parse_char_shape: None under 50 bytes; Attr is the u32 at offset 46.
ParseCharShape(d) ==
    IF Len(d) < 50 THEN [some |-> FALSE]
    ELSE [some |-> TRUE,
          shape |-> [bold |-> (d[47] \div 2) % 2 = 1,
                     italic |-> d[47] % 2 = 1,
                     underline |-> (d[47] \div 4) % 4 # 0,
                     strikeout |-> (d[49] \div 4) % 16 # 0]]

\* HashMap::insert
Insert(map, key, value) ==
    [k \in DOMAIN map \cup {key} |-> IF k = key THEN value ELSE map[k]]

RECURSIVE CharShapesFromMutant(_, _, _, _)
CharShapesFromMutant(records, k, shape_index, shapes) ==
    IF k > Len(records) THEN shapes
    ELSE IF records[k].tag_id = HWPTAG_CHAR_SHAPE
    THEN LET shape == ParseCharShape(records[k].data)
         IN  IF shape.some
             THEN CharShapesFromMutant(records, k + 1, shape_index + 1,
                                       Insert(shapes, shape_index, shape.shape))
             ELSE CharShapesFromMutant(records, k + 1, shape_index, shapes)
    ELSE CharShapesFromMutant(records, k + 1, shape_index, shapes)

RECURSIVE CharShapesFrom(_, _, _, _)
\* The loop of parse_doc_info from the k-th record.
CharShapesFrom(records, k, shape_index, shapes) ==
    IF k > Len(records) THEN shapes
    ELSE IF records[k].tag_id = HWPTAG_CHAR_SHAPE
    THEN LET shape == ParseCharShape(records[k].data)
         IN  CharShapesFrom(records, k + 1, shape_index + 1,
                 IF shape.some THEN Insert(shapes, shape_index, shape.shape)
                 ELSE shapes)
    ELSE CharShapesFrom(records, k + 1, shape_index, shapes)

\* parse_doc_info: the char_shapes map afterwards (as before when DocInfo
\* cannot be read).
ParseDocInfo(cf, fl, shapes) ==
    LET d == ReadDocInfo(cf, fl)
    IN  IF d.ok THEN CharShapesFrom(ParseAll(d.value, 0).records, 1, 0, shapes)
        ELSE shapes

\* char::is_whitespace
IsWhitespace(c) ==
    \/ c \in {9, 10, 11, 12, 13, 32, 133, 160, 5760, 8232, 8233, 8239, 8287, 12288}
    \/ (c >= 8192 /\ c <= 8202)

\* text.trim().is_empty()
TrimIsEmpty(text) == \A i \in 1..Len(text) : IsWhitespace(text[i])

RECURSIVE Join(_, _)
\* [String]::join(sep)
Join(ss, sep) ==
    IF ss = <<>> THEN <<>>
    ELSE IF Len(ss) = 1 THEN ss[1]
    ELSE ss[1] \o sep \o Join(Tail(ss), sep)

NoData == [some |-> FALSE]

\* `if !text.trim().is_empty() { paragraphs.push(text) }`
PushUnlessBlank(paragraphs, text) ==
    IF ~TrimIsEmpty(text) THEN Append(paragraphs, text) ELSE paragraphs

\* The flush of a paragraph: pushed unless it trims to nothing.
ParaFlush(st, shapes) ==
    PushUnlessBlank(st.paragraphs,
                    ExtractParaTextFormatted(st.current_text_data.data,
                                             st.current_char_shape_mapping, shapes))

ParaStepMutant(st, rec, shapes) ==
    IF rec.tag_id = HWPTAG_PARA_HEADER
    THEN IF st.current_text_data.some
         THEN [paragraphs |-> ParaFlush(st, shapes), current_text_data |-> NoData,
               current_char_shape_mapping |-> NoMapping]
         ELSE st
    ELSE IF rec.tag_id = HWPTAG_PARA_TEXT
    THEN IF st.current_text_data.some THEN st
         ELSE [st EXCEPT !.current_text_data = [some |-> TRUE, data |-> rec.data]]
    ELSE IF rec.tag_id = HWPTAG_PARA_CHAR_SHAPE
    THEN [st EXCEPT !.current_char_shape_mapping = ParseParaCharShape(rec.data)]
    ELSE st

\* One iteration of `for record in &records` in parse_section_records_formatted.
ParaStep(st, rec, shapes) ==
    IF rec.tag_id = HWPTAG_PARA_HEADER
    THEN IF st.current_text_data.some
         THEN [paragraphs |-> ParaFlush(st, shapes), current_text_data |-> NoData,
               current_char_shape_mapping |-> NoMapping]
         ELSE st
    ELSE IF rec.tag_id = HWPTAG_PARA_TEXT
    THEN [st EXCEPT !.current_text_data = [some |-> TRUE, data |-> rec.data]]
    ELSE IF rec.tag_id = HWPTAG_PARA_CHAR_SHAPE
    THEN [st EXCEPT !.current_char_shape_mapping = ParseParaCharShape(rec.data)]
    ELSE st

RECURSIVE ParaLoop(_, _, _, _)
ParaLoop(st, records, k, shapes) ==
    IF k > Len(records) THEN st
    ELSE ParaLoop(ParaStep(st, records[k], shapes), records, k + 1, shapes)

LINE_FEED == <<10>>              \* "\n"

\* "Flush last paragraph": the paragraphs after it.
ParaLast(st, shapes) ==
    IF st.current_text_data.some THEN ParaFlush(st, shapes) ELSE st.paragraphs

\* "Flush last paragraph", then paragraphs.join("\n")
ParaFinish(st, shapes) ==
    Join(IF st.current_text_data.some THEN ParaFlush(st, shapes)
         ELSE st.paragraphs, LINE_FEED)

\* parse_section_records_formatted
ParseSectionRecordsFormatted(d, shapes) ==
    ParaFinish(ParaLoop(ParaStart, ParseAll(d, 0).records, 1, shapes), shapes)

(***************************************************************************)
(* HwpParser (parser.rs): extract_text                                     *)
(***************************************************************************)
\* "No BodyText sections found."
NO_SECTIONS ==
    <<78, 111, 32, 66, 111, 100, 121, 84, 101, 120, 116, 32, 115, 101, 99,
      116, 105, 111, 110, 115, 32, 102, 111, 117, 110, 100, 46>>
\* "No text extracted. File may be encrypted or have unsupported format."
NO_TEXT ==
    <<78, 111, 32, 116, 101, 120, 116, 32, 101, 120, 116, 114, 97, 99, 116,
      101, 100, 46, 32, 70, 105, 108, 101, 32, 109, 97, 121, 32, 98, 101, 32,
      101, 110, 99, 114, 121, 112, 116, 101, 100, 32, 111, 114, 32, 104, 97,
      118, 101, 32, 117, 110, 115, 117, 112, 112, 111, 114, 116, 101, 100,
      32, 102, 111, 114, 109, 97, 116, 46>>
\* "=== Section "
SECTION_OPEN ==
    <<61, 61, 61, 32, 83, 101, 99, 116, 105, 111, 110, 32>>
\* " ===\n"
SECTION_CLOSE ==
    <<32, 61, 61, 61, 10>>
\* "\n\n"
BLANK_LINE ==
    <<10, 10>>

RECURSIVE Decimal(_)
\* A usize formatted by {}
Decimal(n) == IF n < 10 THEN <<48 + n>> ELSE Decimal(n \div 10) \o <<48 + (n % 10)>>

\* What extract_text pushes on all_text for a section with this text.
SectionEntry(section_text, section_num, section_count) ==
    IF section_text = <<>> THEN <<>>
    ELSE IF section_count > 1
    THEN <<SECTION_OPEN \o Decimal(section_num) \o SECTION_CLOSE \o section_text>>
    ELSE <<section_text>>

\* The body of the section loop of extract_text for what read_body_text gave.
SectionBody(d, shapes, section_num, section_count) ==
    IF d.ok
    THEN SectionEntry(ParseSectionRecordsFormatted(d.value, shapes),
                      section_num, section_count)
    ELSE <<>>

RECURSIVE SectionTexts(_, _, _, _, _)
\* The loop `for section_num in 0..section_count` of extract_text from
\* section_num: what it pushes on all_text.
SectionTexts(cf, fl, shapes, section_num, section_count) ==
    IF section_num >= section_count THEN <<>>
    ELSE SectionBody(ReadBodyText(cf, fl, section_num), shapes,
                     section_num, section_count)
         \o SectionTexts(cf, fl, shapes, section_num + 1, section_count)

\* The char_shapes map extract_text works with: parsed from DocInfo when the
\* map is empty.
ShapesForText(cf, fl, shapes) ==
    IF DOMAIN shapes = {} THEN ParseDocInfo(cf, fl, shapes) ELSE shapes

\* The String extract_text returns for what the section loop collected.
TextOf(all_text, section_count) ==
    IF section_count = 0 THEN NO_SECTIONS
    ELSE IF all_text = <<>> THEN NO_TEXT
    ELSE Join(all_text, BLANK_LINE)

\* extract_text
ExtractText(cf, fl, shapes) ==
    Ok(TextOf(SectionTexts(cf, fl, ShapesForText(cf, fl, shapes), 0, SectionCount(cf)),
              SectionCount(cf)))

(***************************************************************************)
(* HwpParser (parser.rs): extract_images                                   *)
(***************************************************************************)
JPEG == <<106, 112, 101, 103>>    \* "jpeg"
PNG == <<112, 110, 103>>          \* "png"
GIF == <<103, 105, 102>>          \* "gif"
BMP == <<98, 109, 112>>           \* "bmp"
WMF == <<119, 109, 102>>          \* "wmf"
EMF == <<101, 109, 102>>          \* "emf"
WEBP == <<119, 101, 98, 112>>     \* "webp"
DOT == <<46>>                     \* "."

DetectImageFormatMutant(d) ==
    IF Len(d) < 4 THEN <<>>
    ELSE IF d[1] = 255 /\ d[2] = 216 /\ d[3] = 255 THEN JPEG
    ELSE IF d[1] = 137 /\ d[2] = 80 /\ d[3] = 78 /\ d[4] = 71 THEN PNG
    ELSE IF d[1] = 71 /\ d[2] = 73 /\ d[3] = 70 THEN GIF
    ELSE IF d[1] = 66 /\ d[2] = 77 THEN BMP
    ELSE IF d[1] = 215 /\ d[2] = 205 /\ d[3] = 198 /\ d[4] = 154 THEN WMF
    ELSE IF d[1] = 1 /\ d[2] = 0 /\ d[3] = 0 /\ d[4] = 0 THEN EMF
    ELSE IF SubSeq(d, 1, 4) = <<82, 73, 70, 70>> /\ Len(d) >= 12
            /\ SubSeq(d, 9, 12) = <<87, 69, 66, 80>> THEN WEBP
    ELSE <<>>

\* detect_image_format: "" when no magic number matches
DetectImageFormat(d) ==
    IF Len(d) < 8 THEN <<>>
    ELSE IF d[1] = 255 /\ d[2] = 216 /\ d[3] = 255 THEN JPEG
    ELSE IF d[1] = 137 /\ d[2] = 80 /\ d[3] = 78 /\ d[4] = 71 THEN PNG
    ELSE IF d[1] = 71 /\ d[2] = 73 /\ d[3] = 70 THEN GIF
    ELSE IF d[1] = 66 /\ d[2] = 77 THEN BMP
    ELSE IF d[1] = 215 /\ d[2] = 205 /\ d[3] = 198 /\ d[4] = 154 THEN WMF
    ELSE IF d[1] = 1 /\ d[2] = 0 /\ d[3] = 0 /\ d[4] = 0 THEN EMF
    ELSE IF SubSeq(d, 1, 4) = <<82, 73, 70, 70>> /\ Len(d) >= 12
            /\ SubSeq(d, 9, 12) = <<87, 69, 66, 80>> THEN WEBP
    ELSE <<>>

EndsWithMutant(t, suffix) == FALSE

\* str::ends_with
EndsWith(t, suffix) ==
    Len(t) >= Len(suffix) /\ SubSeq(t, Len(t) - Len(suffix) + 1, Len(t)) = suffix

RECURSIVE ImagesFrom(_, _, _)
\* The loop `for name in bin_data_names` from the k-th name.
ImagesFrom(cf, names, k) ==
    IF k > Len(names) THEN <<>>
    ELSE LET d == ReadBinData(cf, names[k])
             format == DetectImageFormat(d.value)
             rest == ImagesFrom(cf, names, k + 1)
         IN  IF d.ok /\ format # <<>>
             THEN <<[name |-> IF EndsWith(names[k], DOT \o format) THEN names[k]
                              ELSE names[k] \o DOT \o format,
                     original_name |-> names[k],
                     format |-> format,
                     data |-> d.value]>> \o rest
             ELSE rest

\* extract_images
ExtractImages(cf) == Ok(ImagesFrom(cf, ListBinData(cf), 1))

(***************************************************************************)
(* HwpParser (parser.rs): extract_tables, extract_metadata, to_mdm         *)
(***************************************************************************)
\* A call that returned r, and a call that panicked.
Returned(r) == [panicked |-> FALSE, ret |-> r]
Panicked(fault) == [panicked |-> TRUE, fault |-> fault]

RECURSIVE ScanLoop(_, _, _, _)
\* `for record in &records` of extract_tables from the k-th record.
ScanLoop(st, records, k, checks) ==
    IF k > Len(records) \/ st.fault # "none" THEN st
    ELSE ScanLoop(TableStep(st, records[k], checks), records, k + 1, checks)

\* The body of extract_tables for one section that could be read.
ScanSection(d, checks) ==
    LET st == ScanLoop(ScanStart, ParseAll(d, 0).records, 1, checks)
    IN  IF st.fault # "none" THEN st ELSE TableFinish(st)

RECURSIVE TablesFrom(_, _, _, _, _)
\* The loop `for section_num in 0..section_count` of extract_tables.
TablesFrom(cf, fl, section_num, section_count, checks) ==
    IF section_num >= section_count THEN [fault |-> "none", tables |-> <<>>]
    ELSE LET d == ReadBodyText(cf, fl, section_num)
             st == ScanSection(d.value, checks)
             rest == TablesFrom(cf, fl, section_num + 1, section_count, checks)
         IN  IF ~d.ok THEN rest
             ELSE IF st.fault # "none" THEN [fault |-> st.fault, tables |-> <<>>]
             ELSE [fault |-> rest.fault, tables |-> st.tables \o rest.tables]

\* extract_tables
ExtractTables(cf, fl, checks) ==
    LET t == TablesFrom(cf, fl, 0, SectionCount(cf), checks)
    IN  IF t.fault # "none" THEN Panicked(t.fault) ELSE Returned(Ok(t.tables))

HWP_SPACE == <<72, 87, 80, 32>>                        \* "HWP "
UNKNOWN == <<85, 110, 107, 110, 111, 119, 110>>        \* "Unknown"

\* parse_version: "HWP {major}.{minor}.{build}.{revision}" from bytes 35..32
ParseVersion(d) ==
    IF Len(d) >= 36
    THEN HWP_SPACE \o Decimal(d[36]) \o DOT \o Decimal(d[35]) \o DOT
         \o Decimal(d[34]) \o DOT \o Decimal(d[33])
    ELSE UNKNOWN

\* extract_metadata
ExtractMetadata(cf, fl) ==
    LET header_data == ReadFileHeader(cf)
    IN  IF header_data.ok
        THEN Ok([version |-> ParseVersion(header_data.value),
                 compressed |-> fl.compressed,
                 encrypted |-> fl.encrypted,
                 section_count |-> SectionCount(cf),
                 bin_data_count |-> Len(ListBinData(cf))])
        ELSE Err

\* The `?` chain of to_mdm over what the four extractions gave, in order.
MdmOf(text, images, tables, metadata) ==
    IF ~text.ok THEN Returned(Err)
    ELSE IF ~images.ok THEN Returned(Err)
    ELSE IF tables.panicked THEN tables
    ELSE IF ~tables.ret.ok THEN Returned(Err)
    ELSE IF ~metadata.ok THEN Returned(Err)
    ELSE Returned(Ok([content |-> text.value, images |-> images.value,
                      tables |-> tables.ret.value, metadata |-> metadata.value]))

\* to_mdm
ToMdm(cf, fl, shapes, checks) ==
    MdmOf(ExtractText(cf, fl, shapes), ExtractImages(cf),
          ExtractTables(cf, fl, checks), ExtractMetadata(cf, fl))

(***************************************************************************)
(* Containers HwpParser::open accepts                                      *)
(***************************************************************************)
MaxSectionNo == 1     \* streams BodyText/Section0 .. Section{MaxSectionNo} may exist

\* A stream holding zlib data that inflates to d, raw deflate data that
\* inflates to d, d stored as it is, and bytes no decoder accepts.
Zlib(d) == Stream(<<120, 156, 1>>, Gives(d), Fails)
Deflate(d) == Stream(<<99, 1>>, Fails, Gives(d))
Stored(d) == Stream(d, Fails, Fails)
Broken == Stream(<<0, 1, 2>>, Fails, Fails)

\* FileHeader bytes: a 32-byte signature, the version, the flags.
FileHeaderBytes(flag_byte) == Zeros(32) \o <<0, 1, 0, 5>> \o <<flag_byte, 0, 0, 0>>

FileHeaders ==
    {NoStream,
     Stored(SubSeq(FileHeaderBytes(0), 1, 20)),
     Stored(SubSeq(FileHeaderBytes(0), 1, 36)),
     Stored(FileHeaderBytes(0)),
     Stored(FileHeaderBytes(1)),
     Stored(FileHeaderBytes(3))}

\* A CHAR_SHAPE payload with the given bytes 0 and 2 of Attr.
CharShapePayload(a0, a2) == Zeros(46) \o <<a0, 0, a2, 0>>

\* DocInfo records: shape 0 bold, a CHAR_SHAPE too short to decode, shape 2
\* italic and underlined.
DocInfoData ==
    EncodeShort(HWPTAG_CHAR_SHAPE, 0, CharShapePayload(2, 0))
    \o EncodeShort(HWPTAG_CHAR_SHAPE, 0, Zeros(10))
    \o EncodeShort(HWPTAG_CHAR_SHAPE, 0, CharShapePayload(5, 0))

DocInfos == {NoStream, Zlib(DocInfoData), Stored(DocInfoData)}

\* Section records: a styled paragraph and a blank one; a 1 x 2 table; a
\* table of 0 columns with a cell header; a table of 256 x 256 cells.
ParaSection ==
    EncodeShort(HWPTAG_PARA_HEADER, 0, <<>>)
    \o EncodeShort(HWPTAG_PARA_TEXT, 1, Utf16(<<72, 105>>))
    \o EncodeShort(HWPTAG_PARA_CHAR_SHAPE, 1, EncodeMapping(<<[pos |-> 0, id |-> 0]>>))
    \o EncodeShort(HWPTAG_PARA_HEADER, 0, <<>>)
    \o EncodeShort(HWPTAG_PARA_TEXT, 1, Utf16(<<32>>))
TableSection ==
    EncodeShort(HWPTAG_TABLE, 1, TablePayload(1, 2, <<>>))
    \o EncodeShort(HWPTAG_LIST_HEADER, 2, ListHeaderPayload(1, 1))
    \o EncodeShort(HWPTAG_PARA_HEADER, 2, <<>>)
    \o EncodeShort(HWPTAG_PARA_TEXT, 3, Utf16(<<65>>))
    \o EncodeShort(HWPTAG_LIST_HEADER, 2, ListHeaderPayload(2, 1))
    \o EncodeShort(HWPTAG_PARA_HEADER, 2, <<>>)
    \o EncodeShort(HWPTAG_PARA_TEXT, 3, Utf16(<<66>>))
NoColumnsSection ==
    EncodeShort(HWPTAG_TABLE, 1, TablePayload(1, 0, <<>>))
    \o EncodeShort(HWPTAG_LIST_HEADER, 2, ListHeaderPayload(1, 1))
HugeTableSection ==
    EncodeShort(HWPTAG_TABLE, 1, TablePayload(256, 256, <<>>))

SectionStreams ==
    {Zlib(ParaSection), Deflate(TableSection), Stored(ParaSection), Broken,
     Deflate(NoColumnsSection), Zlib(HugeTableSection)}

\* The BodyText storage: any set of the section numbers, not only 0..n-1.
SectionMaps == UNION {[S -> SectionStreams] : S \in SUBSET (0..MaxSectionNo)}

PngBytes == <<137, 80, 78, 71, 13, 10, 26, 10>>
JpegBytes == <<255, 216, 255, 224, 0, 16, 74, 70>>

\* The BinData storage, in walk order: names "b.png", "a", "c".
BinDatas ==
    {<<>>,
     <<[name |-> <<98>> \o DOT \o PNG, stream |-> Stored(PngBytes)]>>,
     <<[name |-> <<97>>, stream |-> Zlib(JpegBytes)],
       [name |-> <<99>>, stream |-> Stored(<<1, 2, 3>>)]>>,
     <<[name |-> <<97>>, stream |-> Stream(PngBytes, Fails, Gives(<<>>))]>>}

Containers ==
    [opened : {TRUE}, file_header : FileHeaders, doc_info : DocInfos,
     sections : SectionMaps, bin_data : BinDatas]

(***************************************************************************)
(* HwpParser as a state machine: HwpParser::open has succeeded, then the   *)
(* public calls in any order.                                              *)
(***************************************************************************)
InitDoc ==
    /\ DocOthersIdle
    /\ compound_file \in Containers
    /\ flags = OpenFlags(compound_file)
    /\ self_char_shapes = <<>>
    /\ text_ret = NotCalled
    /\ images_ret = NotCalled
    /\ tables_ret = NotCalled
    /\ metadata_ret = NotCalled
    /\ mdm_ret = NotCalled
    /\ overflow_checks \in BOOLEAN

\* The process goes on after a call unless the call panicked.
Alive ==
    /\ IF tables_ret.called THEN ~tables_ret.panicked ELSE TRUE
    /\ IF mdm_ret.called THEN ~mdm_ret.panicked ELSE TRUE

Called(outcome) == [called |-> TRUE] @@ outcome

CallExtractText ==
    /\ Alive
    /\ self_char_shapes' = ShapesForText(compound_file, flags, self_char_shapes)
    /\ text_ret' = Called(Returned(ExtractText(compound_file, flags, self_char_shapes)))
    /\ images_ret' = NotCalled /\ tables_ret' = NotCalled
    /\ metadata_ret' = NotCalled /\ mdm_ret' = NotCalled
    /\ UNCHANGED <<compound_file, flags, overflow_checks>>
    /\ UNCHANGED docOthers

CallExtractImages ==
    /\ Alive
    /\ images_ret' = Called(Returned(ExtractImages(compound_file)))
    /\ text_ret' = NotCalled /\ tables_ret' = NotCalled
    /\ metadata_ret' = NotCalled /\ mdm_ret' = NotCalled
    /\ UNCHANGED <<compound_file, flags, self_char_shapes, overflow_checks>>
    /\ UNCHANGED docOthers

CallExtractTables ==
    /\ Alive
    /\ tables_ret' = Called(ExtractTables(compound_file, flags, overflow_checks))
    /\ text_ret' = NotCalled /\ images_ret' = NotCalled
    /\ metadata_ret' = NotCalled /\ mdm_ret' = NotCalled
    /\ UNCHANGED <<compound_file, flags, self_char_shapes, overflow_checks>>
    /\ UNCHANGED docOthers

CallExtractMetadata ==
    /\ Alive
    /\ metadata_ret' = Called(Returned(ExtractMetadata(compound_file, flags)))
    /\ text_ret' = NotCalled /\ images_ret' = NotCalled
    /\ tables_ret' = NotCalled /\ mdm_ret' = NotCalled
    /\ UNCHANGED <<compound_file, flags, self_char_shapes, overflow_checks>>
    /\ UNCHANGED docOthers

CallToMdm ==
    /\ Alive
    /\ self_char_shapes' = ShapesForText(compound_file, flags, self_char_shapes)
    /\ mdm_ret' = Called(ToMdm(compound_file, flags, self_char_shapes, overflow_checks))
    /\ text_ret' = NotCalled /\ images_ret' = NotCalled
    /\ tables_ret' = NotCalled /\ metadata_ret' = NotCalled
    /\ UNCHANGED <<compound_file, flags, overflow_checks>>
    /\ UNCHANGED docOthers

NextDoc ==
    \/ CallExtractText
    \/ CallExtractImages
    \/ CallExtractTables
    \/ CallExtractMetadata
    \/ CallToMdm

SpecDoc == InitDoc /\ [][NextDoc]_vars

\* C2: once HwpParser::open has succeeded, to_mdm returns Ok for every
\* container content; a missing or unreadable FileHeader, DocInfo, section
\* or BinData stream never makes it return Err.
C2_ToMdmReturnsOk ==
    (mdm_ret.called /\ ~mdm_ret.panicked) => mdm_ret.ret.ok

\* t ends with the suffix.
HasSuffix(t, suffix) == \E k \in 0..Len(t) : SubSeq(t, k + 1, Len(t)) = suffix

\* The ImageData at index i of `images` is the one the claim allows for the
\* BinData stream at index k: recognized content, the stream's short name as
\* original_name, and the extension appended to the name only when missing.
ImageOfStream(img, cf, k) ==
    LET short == ListBinData(cf)[k]
        content == ReadBinData(cf, short).value
    IN  /\ img.original_name = short
        /\ img.format # <<>>
        /\ img.format = DetectImageFormat(content)
        /\ img.name = IF HasSuffix(short, DOT \o img.format) THEN short
                      ELSE short \o DOT \o img.format

\* C13: extract_images emits at most one ImageData per BinData stream and only
\* for streams whose content is recognized: every emitted ImageData has a
\* non-empty format, the stream's short name as original_name, and as name the
\* short name itself when it already ends with ".<format>" and short name +
\* ".<format>" otherwise; a stream with unrecognized content produces no entry.
C13_ImagesOfRecognizedStreams ==
    images_ret.called =>
        LET images == images_ret.ret.value
            names == ListBinData(compound_file)
        IN  /\ images_ret.ret.ok
            /\ \A i \in 1..Len(images) :
                   \E k \in 1..Len(names) : ImageOfStream(images[i], compound_file, k)
            /\ \A i, j \in 1..Len(images) :
                   images[i].original_name = images[j].original_name => i = j
            /\ \A k \in 1..Len(names) :
                   DetectImageFormat(ReadBinData(compound_file, names[k]).value) = <<>>
                       => \A i \in 1..Len(images) : images[i].original_name # names[k]

\* extract_images has returned for a container with a recognized and an
\* unrecognized stream, and for one whose stream name already has the extension.
C13_Witness ==
    /\ images_ret.called
    /\ \/ Len(ListBinData(compound_file)) = 2 /\ Len(images_ret.ret.value) = 1
       \/ /\ Len(images_ret.ret.value) = 1
          /\ images_ret.ret.value[1].name = images_ret.ret.value[1].original_name

\* The section numbers the loop `for section_num in 0..section_count` hands
\* to read_body_text.
RequestedSections(cf) == {n \in 0..(MaxSectionNo + 1) : n < SectionCount(cf)}

\* C29: extract_text and extract_tables read every BodyText section stream
\* that is present exactly once: the section numbers they request,
\* 0 .. section_count - 1, are the numbers of the streams section_count
\* counted, also when the section numbers present are not contiguous from 0.
C29_EverySectionPresentIsRead ==
    (text_ret.called \/ tables_ret.called)
        => RequestedSections(compound_file) = DOMAIN compound_file.sections

(***************************************************************************)
(* The record loop of parse_section_records_formatted as a state machine:  *)
(* the records of a section taken one at a time, then the last flush.  The *)
(* parser's char shapes are 0 plain, 1 bold.                               *)
(***************************************************************************)
MaxPara == 5          \* records taken in one section

ParaRecords ==
    {Rec(HWPTAG_PARA_HEADER, <<>>),
     Rec(HWPTAG_PARA_TEXT, Utf16(<<72, 105>>)),
     Rec(HWPTAG_PARA_TEXT, Utf16(<<32>>)),
     Rec(HWPTAG_PARA_CHAR_SHAPE, EncodeMapping(<<[pos |-> 0, id |-> 1]>>)),
     Rec(HWPTAG_PARA_CHAR_SHAPE, EncodeMapping(<<[pos |-> 0, id |-> 0], [pos |-> 1, id |-> 1]>>)),
     Rec(HWPTAG_PARA_CHAR_SHAPE, <<1, 0, 0, 0>>),
     Rec(HWPTAG_LIST_HEADER, Zeros(26))}

InitPara ==
    /\ ParaOthersIdle
    /\ para = ParaStart
    /\ para_pc = "loop"
    /\ para_rec = NoRecord
    /\ para_seen = <<>>
    /\ n_para = 0
    /\ para_ret = NotCalled

TakeRecord ==
    /\ para_pc = "loop"
    /\ n_para < MaxPara
    /\ \E rec \in ParaRecords :
           /\ para' = ParaStep(para, rec, HelloWorldShapes)
           /\ para_rec' = rec
           /\ para_seen' = Append(para_seen, rec)
    /\ n_para' = n_para + 1
    /\ UNCHANGED <<para_pc, para_ret>>
    /\ UNCHANGED paraOthers

FinishPara ==
    /\ para_pc = "loop"
    /\ para_pc' = "done"
    /\ para_ret' = [called |-> TRUE, text |-> ParaFinish(para, HelloWorldShapes),
                    paragraphs |-> ParaLast(para, HelloWorldShapes)]
    /\ UNCHANGED <<para, para_rec, para_seen, n_para>>
    /\ UNCHANGED paraOthers

NextPara == TakeRecord \/ FinishPara

SpecPara == InitPara /\ [][NextPara]_vars

\* C19: after the paragraph pass has processed any PARA_HEADER record, the
\* pending char-shape mapping is empty, so a PARA_CHAR_SHAPE record belonging
\* to one paragraph never styles the PARA_TEXT of a later paragraph.
C19_HeaderClearsPendingMapping ==
    (para_pc = "loop" /\ para_rec # NoRecord /\ para_rec.tag_id = HWPTAG_PARA_HEADER)
        => para.current_char_shape_mapping = NoMapping

\* The PARA_HEADER records at or before index i: the number of the group of
\* records index i belongs to.
GroupOf(rs, i) ==
    Cardinality({h \in 1..i : rs[h].tag_id = HWPTAG_PARA_HEADER})

\* The indices of the PARA_TEXT records that are the last of their group.
LastTexts(rs) ==
    {i \in 1..Len(rs) :
        /\ rs[i].tag_id = HWPTAG_PARA_TEXT
        /\ \A j \in (i + 1)..Len(rs) :
               rs[j].tag_id = HWPTAG_PARA_TEXT => GroupOf(rs, j) # GroupOf(rs, i)}

RECURSIVE Ascending(_)
\* A set of numbers as an ascending sequence.
Ascending(S) ==
    IF S = {} THEN <<>>
    ELSE LET least == CHOOSE x \in S : \A y \in S : x <= y
         IN  <<least>> \o Ascending(S \ {least})

\* The style mappings a paragraph can be formatted with: none, or one a
\* PARA_CHAR_SHAPE record of the list decodes to.
MappingsOf(rs) ==
    {NoMapping} \cup {ParseParaCharShape(rs[i].data) :
                         i \in {j \in 1..Len(rs) : rs[j].tag_id = HWPTAG_PARA_CHAR_SHAPE}}

\* The strings the PARA_TEXT record at index i can be built into.
StringsOf(rs, i, shapes) ==
    {ExtractParaTextFormatted(rs[i].data, m, shapes) : m \in MappingsOf(rs)}

RECURSIVE EmittedFrom(_, _, _, _)
\* `emitted` holds, in order, at most one string for each of the PARA_TEXT
\* records at the indices `texts`, each built from that record.
EmittedFrom(emitted, rs, texts, shapes) ==
    IF texts = <<>> THEN emitted = <<>>
    ELSE \/ EmittedFrom(emitted, rs, Tail(texts), shapes)
         \/ /\ emitted # <<>>
            /\ Head(emitted) \in StringsOf(rs, Head(texts), shapes)
            /\ EmittedFrom(Tail(emitted), rs, Tail(texts), shapes)

\* C21: the paragraph pass emits paragraphs in record order with at most one
\* string per group of records delimited by PARA_HEADER records (and by the
\* start and the end of the list), built from the last PARA_TEXT record of the
\* group; a group still pending when the list ends is finalized exactly once.
C21_OneStringPerGroup ==
    para_pc = "done" =>
        /\ EmittedFrom(para_ret.paragraphs, para_seen,
                       Ascending(LastTexts(para_seen)), HelloWorldShapes)
        /\ para_ret.text = Join(para_ret.paragraphs, LINE_FEED)

\* The pass has ended on a list with two PARA_TEXT records in one group and a
\* pending group at the end, and has emitted two strings.
C21_Witness ==
    /\ para_pc = "done"
    /\ Len(para_ret.paragraphs) = 2
    /\ Cardinality(LastTexts(para_seen)) = 2
    /\ Cardinality({i \in 1..Len(para_seen) : para_seen[i].tag_id = HWPTAG_PARA_TEXT}) = 3
    /\ para_seen[Len(para_seen)].tag_id # HWPTAG_PARA_HEADER

\* The last PARA_TEXT records of their groups whose decoded text holds a
\* character that is not whitespace.
NonBlankTexts(rs) ==
    {i \in LastTexts(rs) : ~TrimIsEmpty(ExtractParaText(rs[i].data))}

MaxImageLen == 12     \* bytes of the longest buffer handed to detect_image_format

PadTo(d, n) == d \o Zeros(n - Len(d))

RIFF == <<82, 73, 70, 70>>        \* b"RIFF"
WEBP_TAG == <<87, 69, 66, 80>>    \* b"WEBP"

\* The first bytes of the buffers: the magic numbers and near misses of them.
ImageHeads ==
    { <<255, 216, 255, 224>>, <<255, 216, 0>>,
      <<137, 80, 78, 71, 13, 10, 26, 10>>, <<137, 80, 78, 0>>,
      <<71, 73, 70, 56, 57, 97>>, <<66, 77>>, <<66, 0>>,
      <<215, 205, 198, 154>>, <<1, 0, 0, 0>>, <<1, 0, 0, 1>>, <<0, 0, 0, 0>>,
      RIFF \o Zeros(4) \o WEBP_TAG, RIFF \o Zeros(4) \o <<87, 69, 66, 0>>,
      <<82, 73, 70, 0>> \o Zeros(4) \o WEBP_TAG }

\* Buffers of every length up to MaxImageLen.
ImageBuffers == UNION {Prefixes(PadTo(h, MaxImageLen)) : h \in ImageHeads}

\* The four flag bytes of a FileHeader: no bit, each of the bits 0..23 alone,
\* every bit, the bits above 16 only.
FlagWords ==
    {<<0, 0, 0, 0>>, <<255, 255, 255, 255>>, <<0, 0, 254, 255>>}
    \cup {<<2 ^ i, 0, 0, 0>> : i \in 0..7}
    \cup {<<0, 2 ^ i, 0, 0>> : i \in 0..7}
    \cup {<<0, 0, 2 ^ i, 0>> : i \in 0..7}

\* FileHeader streams: a signature and version (36 bytes), the flags, and a
\* reserved tail; whole, and cut below 40 bytes.
HeaderStreams ==
    {NoStream, Stored(<<>>)}
    \cup {Stored(Zeros(32) \o <<0, 1, 0, 5>> \o w \o tail) :
             w \in FlagWords, tail \in {<<>>, <<7, 7>>}}
    \cup {Stored(Zeros(32) \o <<0, 1, 0, 5>> \o SubSeq(w, 1, 3)) : w \in FlagWords}

\* Stored bytes with every outcome of the two decoders on them: an error, an
\* empty output, some output.
DecoderOutcomes == {Fails, Gives(<<>>), Gives(<<7>>), Gives(<<8, 9>>)}
RawStreams ==
    {Stream(raw, z, f) : raw \in {<<120, 156, 1>>, <<1, 2, 3>>},
                         z \in DecoderOutcomes, f \in DecoderOutcomes}

\* The short name of the BinData stream read_bin_data is asked for.
BinName == <<97>>

\* The four bytes of Attr: no bit, each of the 32 bits alone, every bit, and
\* the words of the tests (0x03, 0x04, 0x00040000).
AttrWords ==
    {<<0, 0, 0, 0>>, <<255, 255, 255, 255>>, <<3, 0, 0, 0>>}
    \cup {<<2 ^ i, 0, 0, 0>> : i \in 0..7}
    \cup {<<0, 2 ^ i, 0, 0>> : i \in 0..7}
    \cup {<<0, 0, 2 ^ i, 0>> : i \in 0..7}
    \cup {<<0, 0, 0, 2 ^ i>> : i \in 0..7}

Fill(byte, n) == [i \in 1..n |-> byte]

\* CHAR_SHAPE payloads: 46 bytes of face names, ratios and base size, Attr,
\* and the fields after it; whole, and cut at 49 bytes.
CharShapePayloads ==
    {Fill(f, 46) \o w \o tail :
         f \in {0, 255}, w \in AttrWords, tail \in {<<>>, Fill(255, 22)}}
    \cup {Fill(0, 46) \o SubSeq(w, 1, 3) : w \in AttrWords}

MaxDocRecords == 3    \* records of the longest DocInfo stream

HWPTAG_DOCUMENT_PROPERTIES == 0   \* 0x00

\* DocInfo records: a bold, an italic and an undecodable (10-byte) CHAR_SHAPE,
\* and a record of another tag with a payload of the same size.
DocRecords ==
    {[tag_id |-> HWPTAG_CHAR_SHAPE, data |-> CharShapePayload(2, 0)],
     [tag_id |-> HWPTAG_CHAR_SHAPE, data |-> CharShapePayload(1, 0)],
     [tag_id |-> HWPTAG_CHAR_SHAPE, data |-> Zeros(10)],
     [tag_id |-> HWPTAG_DOCUMENT_PROPERTIES, data |-> CharShapePayload(3, 0)]}

RECURSIVE EncodeRecords(_)
\* The bytes of a stream holding the records.
EncodeRecords(rs) ==
    IF rs = <<>> THEN <<>>
    ELSE EncodeShort(Head(rs).tag_id, 0, Head(rs).data) \o EncodeRecords(Tail(rs))

(***************************************************************************)
(* The byte-level functions as a state machine: the argument is chosen,    *)
(* then the function is applied to it.                                     *)
(***************************************************************************)
InitFn ==
    /\ FnOthersIdle
    /\ \/ \E d \in ImageBuffers : fin = [kind |-> "image", data |-> d]
       \/ \E h \in HeaderStreams : fin = [kind |-> "header", stream |-> h]
       \/ \E st \in RawStreams : fin = [kind |-> "stream", stream |-> st]
       \/ \E d \in CharShapePayloads : fin = [kind |-> "char_shape", data |-> d]
       \/ \E rs \in SeqsUpTo(DocRecords, MaxDocRecords) :
              fin = [kind |-> "doc_info", records |-> rs,
                     stream |-> Zlib(EncodeRecords(rs))]
    /\ format_ret = NotCalled
    /\ flags_ret = NotCalled
    /\ zlib_ret = NotCalled
    /\ bin_ret = NotCalled
    /\ shape_ret = NotCalled
    /\ shapes_ret = NotCalled

CallDetectImageFormat ==
    /\ fin.kind = "image"
    /\ format_ret' = [called |-> TRUE, format |-> DetectImageFormat(fin.data)]
    /\ UNCHANGED <<fin, flags_ret, zlib_ret, bin_ret, shape_ret, shapes_ret>>
    /\ UNCHANGED fnOthers

\* OleReader::open on a container whose FileHeader stream is the argument.
CallOpen ==
    /\ fin.kind = "header"
    /\ flags_ret' = [called |-> TRUE, flags |-> OpenFlags([file_header |-> fin.stream])]
    /\ UNCHANGED <<fin, format_ret, zlib_ret, bin_ret, shape_ret, shapes_ret>>
    /\ UNCHANGED fnOthers

CallDecompressZlib ==
    /\ fin.kind = "stream"
    /\ zlib_ret' = [called |-> TRUE, ret |-> DecompressZlib(fin.stream),
                    run |-> DecodersRun(fin.stream)]
    /\ UNCHANGED <<fin, format_ret, flags_ret, bin_ret, shape_ret, shapes_ret>>
    /\ UNCHANGED fnOthers

\* read_bin_data for the one stream of the BinData storage.
CallReadBinData ==
    /\ fin.kind = "stream"
    /\ bin_ret' = [called |-> TRUE,
                   ret |-> ReadBinData([bin_data |-> <<[name |-> BinName,
                                                        stream |-> fin.stream]>>],
                                       BinName)]
    /\ UNCHANGED <<fin, format_ret, flags_ret, zlib_ret, shape_ret, shapes_ret>>
    /\ UNCHANGED fnOthers

CallParseCharShape ==
    /\ fin.kind = "char_shape"
    /\ shape_ret' = [called |-> TRUE, ret |-> ParseCharShape(fin.data)]
    /\ UNCHANGED <<fin, format_ret, flags_ret, zlib_ret, bin_ret, shapes_ret>>
    /\ UNCHANGED fnOthers

\* parse_doc_info of a parser just opened on a container with this DocInfo.
CallParseDocInfo ==
    /\ fin.kind = "doc_info"
    /\ shapes_ret' = [called |-> TRUE,
                      shapes |-> ParseDocInfo([doc_info |-> fin.stream], DefaultFlags, <<>>)]
    /\ UNCHANGED <<fin, format_ret, flags_ret, zlib_ret, bin_ret, shape_ret>>
    /\ UNCHANGED fnOthers

NextFn ==
    \/ CallDetectImageFormat
    \/ CallOpen
    \/ CallDecompressZlib
    \/ CallReadBinData
    \/ CallParseCharShape
    \/ CallParseDocInfo

SpecFn == InitFn /\ [][NextFn]_vars

(***************************************************************************)
(* Claims about the byte-level functions                                   *)
(***************************************************************************)
StartsWith(d, prefix) == Len(d) >= Len(prefix) /\ SubSeq(d, 1, Len(prefix)) = prefix

\* The format of a buffer of at least `least` bytes by its magic prefix, the
\* empty format for a shorter buffer and for one that matches no prefix.
FormatByPrefix(d, least) ==
    IF Len(d) < least THEN <<>>
    ELSE IF StartsWith(d, <<255, 216, 255>>) THEN JPEG
    ELSE IF StartsWith(d, <<137, 80, 78, 71>>) THEN PNG
    ELSE IF StartsWith(d, <<71, 73, 70>>) THEN GIF
    ELSE IF StartsWith(d, <<66, 77>>) THEN BMP
    ELSE IF StartsWith(d, <<215, 205, 198, 154>>) THEN WMF
    ELSE IF StartsWith(d, <<1, 0, 0, 0>>) THEN EMF
    ELSE IF StartsWith(d, RIFF) /\ Len(d) >= 12 /\ SubSeq(d, 9, 12) = WEBP_TAG THEN WEBP
    ELSE <<>>

\* C12 as stated: detect_image_format reports the format of every buffer that
\* begins with one of the magic prefixes, and the empty format for buffers of
\* fewer than 4 bytes and for buffers matching no prefix.
C12_FormatOfEveryMagicPrefix ==
    format_ret.called => format_ret.format = FormatByPrefix(fin.data, 4)

\* C12: detect_image_format reports the format of every buffer of at least 8
\* bytes that begins with one of the magic prefixes, and the empty format for
\* buffers of fewer than 8 bytes and for buffers matching no prefix.
C12_FormatOfMagicPrefixFrom8Bytes ==
    format_ret.called => format_ret.format = FormatByPrefix(fin.data, 8)

C12_Witness ==
    /\ format_ret.called
    /\ Len(fin.data) = 8
    /\ format_ret.format = PNG

\* The 17 flags, flag i at index i + 1.
FlagNames ==
    <<"compressed", "encrypted", "distributed", "script_saved", "drm_protected",
      "xml_template", "history", "signature", "certificate_encrypted",
      "certificate_drm", "ccl", "mobile_optimized", "private_info_security",
      "track_changes", "kogl", "video_control", "order_field_control">>

\* Bit i (0..16) of the little-endian u32 in the four bytes w.
BitOfWord(w, i) ==
    IF i < 16 THEN ((w[1] + 256 * w[2]) \div (2 ^ i)) % 2 = 1
    ELSE w[3] % 2 = 1

HeaderIsShort(h) == ~h.exists \/ Len(h.raw) < 40

\* C14: after OleReader::open, if the FileHeader stream is absent or shorter
\* than 40 bytes the flags are the defaults (compressed = true, every other
\* flag false); otherwise flag i equals bit i of the little-endian u32 at
\* FileHeader bytes [36,40) for the 17 flags, bits above 16 being ignored.
C14_FlagsAfterOpen ==
    flags_ret.called =>
        /\ DOMAIN flags_ret.flags = {FlagNames[i] : i \in 1..17}
        /\ IF HeaderIsShort(fin.stream)
           THEN \A i \in 0..16 : flags_ret.flags[FlagNames[i + 1]] = (i = 0)
           ELSE \A i \in 0..16 :
                    flags_ret.flags[FlagNames[i + 1]]
                        = BitOfWord(SubSeq(fin.stream.raw, 37, 40), i)

\* open has read a FileHeader of 40 bytes or more with bit 16 set and bit 0 clear.
C14_Witness ==
    /\ flags_ret.called
    /\ ~HeaderIsShort(fin.stream)
    /\ flags_ret.flags.order_field_control
    /\ ~flags_ret.flags.compressed

\* The zlib attempt succeeded with a non-empty output.
ZlibGivesBytes(st) == st.zlib.ok /\ st.zlib.data # <<>>

\* C15: decompress_zlib returns the zlib-framed inflate result when that
\* attempt succeeds with non-empty output; when the zlib attempt fails or yields
\* empty output it returns the outcome of raw DEFLATE on the same input; it
\* reports an error only after both attempts have been made, and a buffer that
\* is invalid as zlib but valid as raw DEFLATE decompresses successfully.
C15_ZlibThenRawDeflate ==
    zlib_ret.called =>
        LET st == fin.stream
        IN  /\ ZlibGivesBytes(st) => zlib_ret.ret = Ok(st.zlib.data)
            /\ ~ZlibGivesBytes(st) =>
                   /\ zlib_ret.run = <<"zlib", "deflate">>
                   /\ zlib_ret.ret = IF st.deflate.ok THEN Ok(st.deflate.data) ELSE Err
            /\ ~zlib_ret.ret.ok => zlib_ret.run = <<"zlib", "deflate">>
            /\ (~st.zlib.ok /\ st.deflate.ok) => zlib_ret.ret.ok

\* decompress_zlib has fallen back to raw DEFLATE and succeeded.
C15_Witness ==
    /\ zlib_ret.called
    /\ ~fin.stream.zlib.ok
    /\ zlib_ret.ret = Ok(<<8, 9>>)

\* C16 as stated: read_bin_data never fails for an existing BinData stream: it
\* returns the decompressed bytes when one of the two decompression attempts
\* succeeds and the raw stream bytes unchanged when both attempts fail.
C16_DecompressedIfAnyAttemptSucceeds ==
    bin_ret.called =>
        LET st == fin.stream
        IN  /\ bin_ret.ret.ok
            /\ (st.zlib.ok \/ st.deflate.ok) =>
                   bin_ret.ret.value \in {z.data : z \in {x \in {st.zlib, st.deflate} : x.ok}}
            /\ (~st.zlib.ok /\ ~st.deflate.ok) => bin_ret.ret.value = st.raw

\* C16: read_bin_data never fails for an existing BinData stream: it returns
\* the zlib result when the zlib attempt succeeds with non-empty output,
\* otherwise the raw-DEFLATE result when that attempt succeeds, and otherwise
\* the raw stream bytes unchanged (also when zlib succeeded with an empty
\* output and raw DEFLATE failed); the FileHeader compressed flag plays no part.
C16_DecompressedOrRaw ==
    bin_ret.called =>
        LET st == fin.stream
        IN  /\ bin_ret.ret.ok
            /\ bin_ret.ret.value =
                   IF ZlibGivesBytes(st) THEN st.zlib.data
                   ELSE IF st.deflate.ok THEN st.deflate.data
                   ELSE st.raw

\* read_bin_data has returned the raw bytes of a stream no decoder accepts.
C16_Witness ==
    /\ bin_ret.called
    /\ ~fin.stream.zlib.ok
    /\ ~fin.stream.deflate.ok
    /\ bin_ret.ret = Ok(fin.stream.raw)

\* Bit i (0..31) of the little-endian u32 at payload bytes [46,50).
AttrBit(d, i) == (d[46 + (i \div 8) + 1] \div (2 ^ (i % 8))) % 2 = 1

\* C18: parse_char_shape returns no shape for a payload shorter than 50 bytes,
\* and otherwise decodes the little-endian u32 at payload bytes [46,50) as
\* italic = bit 0, bold = bit 1, underline = (bits 2..3 not both zero),
\* strikeout = (bits 18..21 not all zero), every other bit and byte having no
\* effect.
C18_CharShapeOfAttr ==
    shape_ret.called =>
        IF Len(fin.data) < 50 THEN shape_ret.ret = [some |-> FALSE]
        ELSE /\ shape_ret.ret.some
             /\ shape_ret.ret.shape =
                    [italic |-> AttrBit(fin.data, 0),
                     bold |-> AttrBit(fin.data, 1),
                     underline |-> \E i \in 2..3 : AttrBit(fin.data, i),
                     strikeout |-> \E i \in 18..21 : AttrBit(fin.data, i)]

\* parse_char_shape has decoded Attr 0x00040000 as strikeout only.
C18_Witness ==
    /\ shape_ret.called
    /\ shape_ret.ret.some
    /\ SubSeq(fin.data, 47, 50) = <<0, 0, 4, 0>>
    /\ shape_ret.ret.shape =
           [italic |-> FALSE, bold |-> FALSE, underline |-> FALSE, strikeout |-> TRUE]

\* The CHAR_SHAPE records of the DocInfo stream, in stream order.
CharShapeRecords(rs) == SelectSeq(rs, LAMBDA r : r.tag_id = HWPTAG_CHAR_SHAPE)

\* C17 as stated: after DocInfo is parsed, one CharShape exists per CHAR_SHAPE
\* record of the stream: the map associates key k with the CharShape decoded
\* from the k-th CHAR_SHAPE record (0-based, counting only CHAR_SHAPE records),
\* for every such record.
C17_OneShapePerRecord ==
    shapes_ret.called =>
        LET cs == CharShapeRecords(fin.records)
        IN  /\ DOMAIN shapes_ret.shapes = 0..(Len(cs) - 1)
            /\ \A k \in 0..(Len(cs) - 1) :
                   /\ ParseCharShape(cs[k + 1].data).some
                   /\ shapes_ret.shapes[k] = ParseCharShape(cs[k + 1].data).shape

\* C17: after DocInfo is parsed, the map associates key k with the CharShape
\* decoded from the k-th CHAR_SHAPE record (0-based, in stream order, counting
\* every CHAR_SHAPE record) for every such record whose payload has at least
\* 50 bytes; a shorter CHAR_SHAPE record takes its ordinal but leaves its key
\* absent, and the map has no other key.
C17_ShapeOfEachDecodableRecord ==
    shapes_ret.called =>
        LET cs == CharShapeRecords(fin.records)
        IN  /\ DOMAIN shapes_ret.shapes =
                   {k \in 0..(Len(cs) - 1) : Len(cs[k + 1].data) >= 50}
            /\ \A k \in DOMAIN shapes_ret.shapes :
                   shapes_ret.shapes[k] = ParseCharShape(cs[k + 1].data).shape

\* parse_doc_info has met an undecodable CHAR_SHAPE record before a decodable
\* one, with a record of another tag in the stream.
C17_Witness ==
    /\ shapes_ret.called
    /\ Len(fin.records) = 3
    /\ Len(CharShapeRecords(fin.records)) = 2
    /\ DOMAIN shapes_ret.shapes = {1}

(***************************************************************************)
(* Cache (cache.rs): Cache::new(max_size), then set and clear in any       *)
(* order.  The HashMap is the set of its (key, value) entries; the key     *)
(* `keys().next()` yields is any key of the map.                           *)
(***************************************************************************)
MaxCacheSize == 3     \* max_size of the caches built: 0 .. MaxCacheSize

CacheKeys == {"key1", "key2", "key3", "key4"}
CacheValues == {<<1, 2, 3>>, <<>>}

\* HashMap::remove
RemoveKey(entries, key) == {e \in entries : e[1] # key}

\* HashMap::insert: the entry of the key is replaced
InsertEntry(entries, key, value) == RemoveKey(entries, key) \cup {<<key, value>>}

\* Cache::len
CacheLen == Cardinality(store)

\* Cache::new
InitCache ==
    /\ CacheOthersIdle
    /\ store = {}
    /\ max_size \in 0..MaxCacheSize

\* Cache::set: when the map is full its first key is removed if there is one,
\* then the entry is inserted.
CacheSet ==
    /\ \E key \in CacheKeys, value \in CacheValues :
           IF CacheLen >= max_size /\ store # {}
           THEN \E first \in store :
                    store' = InsertEntry(RemoveKey(store, first[1]), key, value)
           ELSE store' = InsertEntry(store, key, value)
    /\ UNCHANGED max_size
    /\ UNCHANGED cacheOthers

\* Cache::clear
CacheClear ==
    /\ store' = {}
    /\ UNCHANGED max_size
    /\ UNCHANGED cacheOthers

NextCache == CacheSet \/ CacheClear

SpecCache == InitCache /\ [][NextCache]_vars

\* C30: after any sequence of Cache::set and Cache::clear calls on a cache
\* built with max_size m (for every m >= 0, any keys, new or already stored),
\* len() <= m holds in every reachable state.
C30_LenAtMostMaxSize == Cardinality(store) <= max_size

====
